---- MODULE Spec2Model ----
(***************************************************************************)
(* createrepo_c: the indexing run of src/createrepo_c.c.                   *)
(*                                                                         *)
(* Part I  (SpecRun, SpecTwo): the life cycle of main() on the output      *)
(*   directory: staging directory .repodata/, interrupt handler, moving    *)
(*   the old repodata/ aside, the swap rename, repomd.xml.                 *)
(* Part II (SpecPool): the walk, the thread pool running dumper_thread,    *)
(*   the three sinks and the cache of old metadata, over two runs.         *)
(***************************************************************************)
EXTENDS Integers, Sequences, FiniteSets, Bags, TLC

(***************************************************************************)
(* Part I: state                                                           *)
(***************************************************************************)
VARIABLES
    pc,                 \* position of each process in main()
    out_repo,           \* directory <out_dir>/repodata/
    tmp_out_repo,       \* directory <out_dir>/.repodata/
    tmp_repodata_path,  \* per process: the global read by sigint_catcher
    handler,            \* per process: sigaction(SIGINT) has been installed
    exit_status,        \* per process: "none", "0", "1" or "SIGINT"
    opts,               \* per process: the command line options
    groupfile,          \* per process: local gchar *groupfile is non-NULL
    todo,               \* per process: names g_dir_read_name has yet to return
    recs,               \* per process: the RepomdRecords, by type
    renamed,            \* per process: the swap rename returned 0
    sigint,             \* per process: SIGINT was delivered to it
    fs0,                \* the output directory as it was when the runs began
    clobbered           \* processes that acted on the other process's .repodata/

runvars == <<pc, out_repo, tmp_out_repo, tmp_repodata_path, handler,
             exit_status, opts, groupfile, todo, recs, renamed, sigint, fs0,
             clobbered>>

\* Part II: state of the walk and the pool
VARIABLES
    run,            \* 1: the first run, 2: the run with --update after it
    mpc,            \* position of the main thread
    tree,           \* the package candidates below the input directory
    disk,           \* per file: what stat and the header parser see
    cfg,            \* options of the current run
    old_metadata,   \* the hash table of old metadata (on = non-NULL)
    unwalked,       \* candidates the walk has not reached yet
    queue,          \* tasks pushed to the pool and not yet taken
    package_count,  \* main's counter of pushed tasks
    wk,             \* per worker thread: its place in dumper_thread
    lock,           \* per sink: is its G_LOCK held
    stream,         \* per sink: the chunks written to the compressed file
    db,             \* per sink: the rows inserted into its database
    order,          \* the order in which the directory tree lists its files
    prev,           \* the three streams of the first run, once it is over
    changed,        \* modifications made to the tree between the runs
    statted,        \* tasks of this run dumper_thread has called stat on
    parsed,         \* tasks of this run package_from_file was called on
    used_old,       \* tasks of this run written from the cached record
    taken,          \* tasks of this run a worker has taken from the pool
    finished,       \* tasks of this run dumper_thread has returned from
    freed           \* tasks of this run released at task_cleanup

poolvars == <<run, mpc, tree, disk, cfg, old_metadata, unwalked, queue,
              package_count, wk, lock, stream, db, order, prev, changed,
              statted, parsed, used_old, taken, finished, freed>>

\* Part III: state of main() between the staging directory and the pool:
\* the old metadata it loads and the tasks it pushes
VARIABLES
    lpc,            \* position in lines 371-414
    lopts,          \* --update, --outputdir, --update-md-path
    md_i,           \* the element of l_update_md_paths the loop is at
    loaded,         \* the calls of locate_and_load_xml_metadata, in order
    wpc,            \* position in lines 539-653
    wopts,          \* --skip-symlinks, --excludes, --pkglist
    sub_dirs,       \* the GQueue of directories to scan
    dirname,        \* the directory being read
    unread,         \* its entries g_dir_read_name has not returned yet
    scanned,        \* the directories opened so far, in order
    element,        \* the element of include_pkgs the loop is at
    pushed          \* the tasks given to g_thread_pool_push, in order

loadvars == <<lpc, lopts, md_i, loaded>>
walkvars == <<wpc, wopts, sub_dirs, dirname, unread, scanned, element, pushed>>
scanvars == <<loadvars, walkvars>>

\* Part IV: one call of py_xml_parse_primary, _filelists or _other
VARIABLES
    ypc,            \* position in py_xml_parse_*
    fn,             \* which of the three functions is called
    pyargs,         \* the objects given as newpkgcb, pkgcb and warningcb
    cb_held,        \* the arguments the call holds a reference on
    installed,      \* the C callbacks given to the parser
    parsing,        \* cr_xml_parse_* has been called
    raised,         \* the exception the call returns with
    tmp_err,        \* the GError of the call is set
    py_pkg,         \* cbdata.py_pkg
    got,            \* per object: references received by the callbacks
    rel,            \* per object: references released by Py_DECREF
    passed,         \* the last pkgcb: <<cbdata.py_pkg, its argument>>
    ncalls,         \* callbacks invoked so far
    last_ret        \* the last callback and the value it returned

pyvars == <<ypc, fn, pyargs, cb_held, installed, parsing, raised, tmp_err,
            py_pkg, got, rel, passed, ncalls, last_ret>>

vars == <<runvars, poolvars, scanvars, pyvars>>

Procs == {1, 2}

\* A file name in a repodata directory: <<ck, base>>; ck = 0 is no checksum
\* prefix, ck = g + 1 is the checksum of bytes of generation g.
\* A generation is 0 (the previous metadata set) or the process that wrote it.
XmlBases == {"primary.xml.gz", "filelists.xml.gz", "other.xml.gz"}
DbBases == {"primary.sqlite", "filelists.sqlite", "other.sqlite"}
CompressedDb(b) == IF b = "primary.sqlite" THEN "primary.sqlite.bz2"
                   ELSE IF b = "filelists.sqlite" THEN "filelists.sqlite.bz2"
                   ELSE "other.sqlite.bz2"
CDbBases == {CompressedDb(b) : b \in DbBases}
GroupBase == "g.xml"
CGroupBase == "g.xml.gz"
RepomdName == <<0, "repomd.xml">>
Plain(b) == <<0, b>>

\* A directory: exists, who created it, and its files. A file has the
\* generation that wrote its bytes, whether its stream was completed, and
\* (repomd.xml) the names it references.
NoFiles == [n \in {} |-> 0]
NoDir == [exists |-> FALSE, owner |-> 0, files |-> NoFiles]
File(g, full) == [by |-> g, full |-> full, refs |-> {}]
Names(d) == DOMAIN d.files
Put(d, n, c) == [d EXCEPT !.files = [m \in DOMAIN d.files \cup {n} |->
                                        IF m = n THEN c ELSE d.files[m]]]
Del(d, S) == [d EXCEPT !.files = [m \in DOMAIN d.files \ S |-> d.files[m]]]


(***************************************************************************)
(* Part I: the output directory before the run                             *)
(***************************************************************************)
\* Files a user may have placed in the old repodata/ (not metadata).
ExtraNames == {Plain(GroupBase), Plain("user.txt")}

\* The previous metadata set: what an earlier run published, plus extras.
PrevMetadata == {Plain(b) : b \in XmlBases \cup CDbBases}
PrevRepo(E) ==
    [exists |-> TRUE, owner |-> 0,
     files |-> [n \in PrevMetadata \cup {RepomdName} \cup E |->
                   IF n = RepomdName
                   THEN [by |-> 0, full |-> TRUE, refs |-> PrevMetadata]
                   ELSE File(0, TRUE)]]

\* A .repodata/ left behind by an earlier run that died.
StaleTmp == [exists |-> TRUE, owner |-> 0,
             files |-> [n \in {Plain("primary.xml.gz")} |-> File(0, FALSE)]]

Options == [groupfile : BOOLEAN, no_database : BOOLEAN,
            unique_md_filenames : BOOLEAN]
NoOptions == [groupfile |-> FALSE, no_database |-> TRUE,
              unique_md_filenames |-> FALSE]

\* RepomdRecord: location_href, whether fill_missing_data found the file, and
\* the checksum it computed (the generation of the bytes it read, plus one).
RecTypes == {"primary", "filelists", "other", "primary_db", "filelists_db",
             "other_db", "group", "group_gz"}
NoRecs == [t \in {} |-> 0]
Rec(n, ok, ck) == [href |-> n, ok |-> ok, ck |-> ck]

InitRun(started, extras) ==
    /\ pc = [p \in Procs |-> IF p \in started THEN "mkdir" ELSE "off"]
    /\ out_repo \in {NoDir} \cup {PrevRepo(E) : E \in SUBSET extras}
    /\ tmp_out_repo \in {NoDir, StaleTmp}
    /\ tmp_repodata_path = [p \in Procs |-> FALSE]
    /\ handler = [p \in Procs |-> FALSE]
    /\ exit_status = [p \in Procs |-> "none"]
    /\ opts \in [Procs -> Options]
    /\ \A p \in Procs \ started : opts[p] = NoOptions
    /\ \A p, q \in started : opts[p] = opts[q]
    /\ groupfile = [p \in Procs |-> FALSE]
    /\ todo = [p \in Procs |-> {}]
    /\ recs = [p \in Procs |-> NoRecs]
    /\ renamed = [p \in Procs |-> FALSE]
    /\ sigint = [p \in Procs |-> FALSE]
    /\ fs0 = <<out_repo, tmp_out_repo>>
    /\ clobbered = {}

(***************************************************************************)
(* Part I: the steps of main()                                             *)
(***************************************************************************)
\* Process p is running and is at label l.
At(p, l) == pc[p] = l /\ exit_status[p] = "none"

Goto(p, l) == pc' = [pc EXCEPT ![p] = l]

\* exit(code) / return code from main.
\* pc keeps the place the process was at.
Exit(p, code) ==
    /\ exit_status' = [exit_status EXCEPT ![p] = code]
    /\ UNCHANGED pc

\* p acts on the directory named .repodata/: record it when that directory
\* was created by the other process.
Touches(p) ==
    IF tmp_out_repo.exists /\ tmp_out_repo.owner \in Procs \ {p}
    THEN clobbered \cup {p} ELSE clobbered

\* A mkdir that, like g_mkdir_with_parents, accepts an existing directory.
MkdirAcceptsExisting(d) == TRUE

\* g_mkdir(tmp_out_repo) == 0: create-if-not-exists.
MkdirSucceeds(d) == ~d.exists

\* Lines 330-340: create the staging directory or exit(1).
Mkdir(p) ==
    /\ At(p, "mkdir")
    /\ \E env_ok \in BOOLEAN :
        IF MkdirSucceeds(tmp_out_repo) /\ env_ok
        THEN /\ tmp_out_repo' = [exists |-> TRUE, owner |-> p, files |-> NoFiles]
             /\ Goto(p, "setpath")
             /\ UNCHANGED exit_status
        ELSE /\ Exit(p, "1")
             /\ UNCHANGED tmp_out_repo
    /\ UNCHANGED <<poolvars, scanvars, pyvars>>
    /\ UNCHANGED <<out_repo, tmp_repodata_path, handler, opts, groupfile,
                   todo, recs, renamed, sigint, fs0, clobbered>>

\* Line 345: tmp_repodata_path = tmp_out_repo.
SetPath(p) ==
    /\ At(p, "setpath")
    /\ tmp_repodata_path' = [tmp_repodata_path EXCEPT ![p] = TRUE]
    /\ Goto(p, "sigaction")
    /\ UNCHANGED <<poolvars, scanvars, pyvars>>
    /\ UNCHANGED <<out_repo, tmp_out_repo, handler, exit_status, opts,
                   groupfile, todo, recs, renamed, sigint, fs0, clobbered>>

\* Lines 347-355: sigaction(SIGINT, sigint_catcher).
Sigaction(p) ==
    /\ At(p, "sigaction")
    /\ handler' = [handler EXCEPT ![p] = TRUE]
    /\ Goto(p, "copygroup")
    /\ UNCHANGED <<poolvars, scanvars, pyvars>>
    /\ UNCHANGED <<out_repo, tmp_out_repo, tmp_repodata_path, exit_status,
                   opts, groupfile, todo, recs, renamed, sigint, fs0, clobbered>>

\* Lines 359-368: copy the group file into staging; a failed copy is logged.
CopyGroupfile(p) ==
    /\ At(p, "copygroup")
    /\ IF opts[p].groupfile
       THEN /\ groupfile' = [groupfile EXCEPT ![p] = TRUE]
            /\ \E copy_ok \in BOOLEAN :
                IF copy_ok /\ tmp_out_repo.exists
                THEN /\ tmp_out_repo' = Put(tmp_out_repo, Plain(GroupBase), File(p, TRUE))
                     /\ clobbered' = Touches(p)
                ELSE UNCHANGED <<tmp_out_repo, clobbered>>
       ELSE UNCHANGED <<groupfile, tmp_out_repo, clobbered>>
    /\ Goto(p, "open")
    /\ UNCHANGED <<poolvars, scanvars, pyvars>>
    /\ UNCHANGED <<out_repo, tmp_repodata_path, handler, exit_status, opts,
                   todo, recs, renamed, sigint, fs0>>

\* The files cw_open and open_*_db create in staging.
SinkFiles(o) == {Plain(b) : b \in XmlBases} \cup
                (IF o.no_database THEN {} ELSE {Plain(b) : b \in DbBases})

\* Lines 436-500: open the three compressed files (exit(1) on failure) and
\* the three databases.
OpenSinks(p) ==
    /\ At(p, "open")
    /\ \E open_ok \in BOOLEAN :
        IF open_ok /\ tmp_out_repo.exists
        THEN /\ tmp_out_repo' =
                  [tmp_out_repo EXCEPT !.files =
                      [n \in Names(tmp_out_repo) \cup SinkFiles(opts[p]) |->
                          IF n \in SinkFiles(opts[p]) THEN File(p, FALSE)
                          ELSE tmp_out_repo.files[n]]]
             /\ clobbered' = Touches(p)
             /\ Goto(p, "pool")
             /\ UNCHANGED exit_status
        ELSE /\ Exit(p, "1")
             /\ UNCHANGED <<tmp_out_repo, clobbered>>
    /\ UNCHANGED <<poolvars, scanvars, pyvars>>
    /\ UNCHANGED <<out_repo, tmp_repodata_path, handler, opts, groupfile,
                   todo, recs, renamed, sigint, fs0>>

\* Lines 503-700: walk, pool, closing tags, cw_close, database close (the
\* pool itself is Part II). The streams p opened are now complete, unless a
\* cw_printf, cw_puts or cw_close failed: their results are not looked at
\* (lines 192, 200, 208, 663-668, 683-689).
RunPool(p) ==
    /\ At(p, "pool")
    /\ \E write_ok \in BOOLEAN :
        tmp_out_repo' =
          [tmp_out_repo EXCEPT !.files =
              [n \in Names(tmp_out_repo) |->
                  IF n \in SinkFiles(opts[p]) /\ tmp_out_repo.files[n].by = p
                  THEN File(p, n[2] \in XmlBases => write_ok)
                  ELSE tmp_out_repo.files[n]]]
    /\ Goto(p, "movestart")
    /\ UNCHANGED <<poolvars, scanvars, pyvars>>
    /\ UNCHANGED <<out_repo, tmp_repodata_path, handler, exit_status, opts,
                   groupfile, todo, recs, renamed, sigint, fs0, clobbered>>


\* remove_metadata(out_dir): deletes the files the old repomd.xml lists, the
\* old repomd.xml and every file with a standard metadata name.
StandardNames == {Plain(b) : b \in XmlBases \cup DbBases \cup CDbBases} \cup {RepomdName}
RemoveMetadata(d) ==
    LET listed == IF RepomdName \in Names(d) THEN d.files[RepomdName].refs ELSE {}
    IN Del(d, listed \cup StandardNames)

\* Lines 703-710: when the old repodata/ exists, remove its metadata.
RemoveOld(p) ==
    /\ At(p, "movestart")
    /\ IF out_repo.exists
       THEN /\ out_repo' = RemoveMetadata(out_repo)
            /\ Goto(p, "opendir")
       ELSE /\ Goto(p, "swap")
            /\ UNCHANGED out_repo
    /\ UNCHANGED <<poolvars, scanvars, pyvars>>
    /\ UNCHANGED <<tmp_out_repo, tmp_repodata_path, handler, exit_status, opts,
                   groupfile, todo, recs, renamed, sigint, fs0, clobbered>>

\* Lines 712-718: g_dir_open(out_repo), or exit(1).
OpenDir(p) ==
    /\ At(p, "opendir")
    /\ \E open_ok \in BOOLEAN :
        IF open_ok /\ out_repo.exists
        THEN /\ todo' = [todo EXCEPT ![p] = Names(out_repo)]
             /\ Goto(p, "move")
             /\ UNCHANGED exit_status
        ELSE /\ Exit(p, "1")
             /\ UNCHANGED todo
    /\ UNCHANGED <<poolvars, scanvars, pyvars>>
    /\ UNCHANGED <<out_repo, tmp_out_repo, tmp_repodata_path, handler, opts,
                   groupfile, recs, renamed, sigint, fs0, clobbered>>

\* The move loop with source and target exchanged.
RenameReversed(src, dst, n) ==
    IF n \in Names(dst) /\ src.exists
    THEN <<Put(src, n, dst.files[n]), Del(dst, {n})>>
    ELSE <<src, dst>>

\* g_rename(<src>/n, <dst>/n): the file leaves src and replaces whatever dst
\* holds under that name; <<src, dst>> afterwards. It fails, changing
\* nothing, when the file or the target directory is not there.
Rename(src, dst, n) ==
    IF n \in Names(src) /\ dst.exists
    THEN <<Del(src, {n}), Put(dst, n, src.files[n])>>
    ELSE <<src, dst>>

\* Lines 720-733: one turn of the loop that moves every remaining file of the
\* old repodata/ into staging; a failed move is logged.
MoveFile(p) ==
    /\ At(p, "move")
    /\ \E n \in todo[p], env_ok \in BOOLEAN :
        /\ todo' = [todo EXCEPT ![p] = @ \ {n}]
        /\ IF env_ok
           THEN /\ out_repo' = Rename(out_repo, tmp_out_repo, n)[1]
                /\ tmp_out_repo' = Rename(out_repo, tmp_out_repo, n)[2]
                /\ clobbered' = IF tmp_out_repo' # tmp_out_repo
                                THEN Touches(p) ELSE clobbered
           ELSE UNCHANGED <<out_repo, tmp_out_repo, clobbered>>
    /\ UNCHANGED <<poolvars, scanvars, pyvars>>
    /\ UNCHANGED <<pc, tmp_repodata_path, handler, exit_status, opts,
                   groupfile, recs, renamed, sigint, fs0>>

\* g_rmdir(out_repo) == 0: only an empty directory can be removed.
RmdirSucceeds(d) == d.exists /\ Names(d) = {}

\* Lines 735-743: g_dir_close, then remove the old repodata/; a failure is
\* logged.
Rmdir(p) ==
    /\ At(p, "move")
    /\ todo[p] = {}
    /\ \E env_ok \in BOOLEAN :
        IF env_ok /\ RmdirSucceeds(out_repo)
        THEN out_repo' = NoDir
        ELSE UNCHANGED out_repo
    /\ Goto(p, "swap")
    /\ UNCHANGED <<poolvars, scanvars, pyvars>>
    /\ UNCHANGED <<tmp_out_repo, tmp_repodata_path, handler, exit_status, opts,
                   groupfile, todo, recs, renamed, sigint, fs0, clobbered>>

\* g_rename(tmp_out_repo, out_repo) == 0: the target is absent or empty.
SwapSucceeds(src, dst) == src.exists /\ (~dst.exists \/ Names(dst) = {})

\* Lines 746-751: rename .repodata/ to repodata/; a failure is logged and
\* the run goes on.
Swap(p) ==
    /\ At(p, "swap")
    /\ \E env_ok \in BOOLEAN :
        IF env_ok /\ SwapSucceeds(tmp_out_repo, out_repo)
        THEN /\ out_repo' = tmp_out_repo
             /\ tmp_out_repo' = NoDir
             /\ renamed' = [renamed EXCEPT ![p] = TRUE]
             /\ clobbered' = Touches(p)
        ELSE UNCHANGED <<out_repo, tmp_out_repo, renamed, clobbered>>
    /\ Goto(p, "fillxml")
    /\ UNCHANGED <<poolvars, scanvars, pyvars>>
    /\ UNCHANGED <<tmp_repodata_path, handler, exit_status, opts, groupfile,
                   todo, recs, sigint, fs0>>

\* Records filled from the files in the staging directory.
RecordDirStaging == tmp_out_repo

\* Lines 758-771: the records are made for "repodata/<name>" and filled
\* with out_dir as the base: the files read are those of <out_dir>/repodata/.
RecordDir == out_repo

\* new_repomdrecord + fill_missing_data(out_dir, rec): the record of file n,
\* filled from the file under <out_dir>/repodata/ when it is there.
FillMissingData(n) ==
    IF RecordDir.exists /\ n \in Names(RecordDir)
    THEN Rec(n, TRUE, RecordDir.files[n].by + 1)
    ELSE Rec(n, FALSE, 0)

\* Lines 754-772: the records of the three XML files.
FillXml(p) ==
    /\ At(p, "fillxml")
    /\ recs' = [recs EXCEPT ![p] =
                  [t \in {"primary", "filelists", "other"} |->
                      FillMissingData(Plain(IF t = "primary" THEN "primary.xml.gz"
                                            ELSE IF t = "filelists" THEN "filelists.xml.gz"
                                            ELSE "other.xml.gz"))]]
    /\ Goto(p, "group")
    /\ UNCHANGED <<poolvars, scanvars, pyvars>>
    /\ UNCHANGED <<out_repo, tmp_out_repo, tmp_repodata_path, handler,
                   exit_status, opts, groupfile, todo, renamed, sigint, fs0, clobbered>>

\* f with the entries of g added (g wins).
Merge(f, g) == [t \in DOMAIN f \cup DOMAIN g |-> IF t \in DOMAIN g THEN g[t] ELSE f[t]]

\* process_groupfile(out_dir, rec, crec): when repodata/<groupfile> is there,
\* writes a compressed copy next to it and fills both records.
GroupfilePresent == out_repo.exists /\ Plain(GroupBase) \in Names(out_repo)

\* Lines 775-785: the records of the group file and of its compressed copy.
Groupfile(p) ==
    /\ At(p, "group")
    /\ IF groupfile[p]
       THEN IF GroupfilePresent
            THEN /\ out_repo' = Put(out_repo, Plain(CGroupBase),
                                    File(p, out_repo.files[Plain(GroupBase)].full))
                 /\ recs' = [recs EXCEPT ![p] = Merge(@,
                       [t \in {"group", "group_gz"} |->
                          IF t = "group"
                          THEN Rec(Plain(GroupBase), TRUE, out_repo.files[Plain(GroupBase)].by + 1)
                          ELSE Rec(Plain(CGroupBase), TRUE, p + 1)])]
            ELSE /\ recs' = [recs EXCEPT ![p] = Merge(@,
                       [t \in {"group", "group_gz"} |-> Rec(Plain(GroupBase), FALSE, 0)])]
                 /\ UNCHANGED out_repo
       ELSE UNCHANGED <<out_repo, recs>>
    /\ Goto(p, "sqlite")
    /\ UNCHANGED <<poolvars, scanvars, pyvars>>
    /\ UNCHANGED <<tmp_out_repo, tmp_repodata_path, handler, exit_status, opts,
                   groupfile, todo, renamed, sigint, fs0, clobbered>>

\* Lines 800-832 on the directory: sqlite3_open opens or creates each
\* database under <out_dir>/repodata/, dbinfo_update writes the XML checksum,
\* compress_file writes the compressed copy and remove deletes the database.
\* The compressed database carries what dbinfo_update wrote into the
\* database before it was compressed: the checksum in the record of the XML
\* file of the same kind (refs of a database: that checksum).
XmlRecType(b) == IF b = "primary.sqlite" THEN "primary"
                 ELSE IF b = "filelists.sqlite" THEN "filelists" ELSE "other"
DbInfo(ck) == {<<ck, "dbinfo">>}
CompressDbs(d, p, rs) ==
    IF ~d.exists THEN d
    ELSE [d EXCEPT !.files =
            [n \in (Names(d) \ {Plain(b) : b \in DbBases}) \cup {Plain(b) : b \in CDbBases} |->
                IF \E b \in DbBases : n = Plain(CompressedDb(b))
                THEN LET b == CHOOSE x \in DbBases : n = Plain(CompressedDb(x))
                     IN [by |-> p,
                         full |-> Plain(b) \in Names(d) /\ d.files[Plain(b)].full,
                         refs |-> DbInfo(rs[XmlRecType(b)].ck)]
                ELSE d.files[n]]]

DbRecType(b) == IF b = "primary.sqlite" THEN "primary_db"
                ELSE IF b = "filelists.sqlite" THEN "filelists_db" ELSE "other_db"

\* Lines 788-848: the databases and their records.
Sqlite(p) ==
    /\ At(p, "sqlite")
    /\ IF ~opts[p].no_database
       THEN /\ out_repo' = CompressDbs(out_repo, p, recs[p])
            /\ recs' = [recs EXCEPT ![p] = Merge(@,
                  [t \in {DbRecType(b) : b \in DbBases} |->
                     LET b == CHOOSE x \in DbBases : DbRecType(x) = t
                     IN IF out_repo'.exists
                        THEN Rec(Plain(CompressedDb(b)), TRUE, p + 1)
                        ELSE Rec(Plain(CompressedDb(b)), FALSE, 0)])]
       ELSE UNCHANGED <<out_repo, recs>>
    /\ Goto(p, "unique")
    /\ UNCHANGED <<poolvars, scanvars, pyvars>>
    /\ UNCHANGED <<tmp_out_repo, tmp_repodata_path, handler, exit_status, opts,
                   groupfile, todo, renamed, sigint, fs0, clobbered>>

\* rename_file(out_dir, rec): a filled record's file gets its checksum as a
\* prefix and the record the new name.
UniqueName(r) == IF r.ok THEN <<r.ck, r.href[2]>> ELSE r.href
RenameFiles(d, rs) ==
    IF ~d.exists THEN d
    ELSE LET moved == {t \in DOMAIN rs : rs[t].ok /\ rs[t].href \in Names(d)}
             old == {rs[t].href : t \in moved}
             new == {UniqueName(rs[t]) : t \in moved}
         IN [d EXCEPT !.files =
               [n \in (Names(d) \ old) \cup new |->
                   IF n \in new
                   THEN d.files[rs[CHOOSE t \in moved : UniqueName(rs[t]) = n].href]
                   ELSE d.files[n]]]

\* Lines 851-862: --unique-md-filenames.
UniqueNames(p) ==
    /\ At(p, "unique")
    /\ IF opts[p].unique_md_filenames
       THEN /\ out_repo' = RenameFiles(out_repo, recs[p])
            /\ recs' = [recs EXCEPT ![p] =
                          [t \in DOMAIN recs[p] |->
                              [recs[p][t] EXCEPT !.href = UniqueName(recs[p][t])]]]
       ELSE UNCHANGED <<out_repo, recs>>
    /\ Goto(p, "repomd")
    /\ UNCHANGED <<poolvars, scanvars, pyvars>>
    /\ UNCHANGED <<tmp_out_repo, tmp_repodata_path, handler, exit_status, opts,
                   groupfile, todo, renamed, sigint, fs0, clobbered>>

\* xml_repomd(...): one <data> entry per non-NULL record, with its
\* location href.
XmlRepomd(rs) == {rs[t].href : t \in DOMAIN rs}

\* fopen(<out_repo>/repomd.xml, "w") succeeds only in an existing directory.
FopenSucceeds(d) == d.exists

\* Lines 865-884: write repomd.xml, or return 1.
WriteRepomd(p) ==
    /\ At(p, "repomd")
    /\ \E env_ok \in BOOLEAN :
        IF env_ok /\ FopenSucceeds(out_repo)
        THEN /\ out_repo' = Put(out_repo, RepomdName,
                                [by |-> p, full |-> TRUE, refs |-> XmlRepomd(recs[p])])
             /\ Goto(p, "cleanup")
             /\ UNCHANGED exit_status
        ELSE /\ Exit(p, "1")
             /\ UNCHANGED out_repo
    /\ UNCHANGED <<poolvars, scanvars, pyvars>>
    /\ UNCHANGED <<tmp_out_repo, tmp_repodata_path, handler, opts, groupfile,
                   todo, recs, renamed, sigint, fs0, clobbered>>

\* Lines 886-907: free the records; tmp_repodata_path = NULL.
Cleanup(p) ==
    /\ At(p, "cleanup")
    /\ tmp_repodata_path' = [tmp_repodata_path EXCEPT ![p] = FALSE]
    /\ Goto(p, "return")
    /\ UNCHANGED <<poolvars, scanvars, pyvars>>
    /\ UNCHANGED <<out_repo, tmp_out_repo, handler, exit_status, opts,
                   groupfile, todo, recs, renamed, sigint, fs0, clobbered>>

\* Lines 908-922: return 0.
Return(p) ==
    /\ At(p, "return")
    /\ Exit(p, "0")
    /\ UNCHANGED <<poolvars, scanvars, pyvars>>
    /\ UNCHANGED <<out_repo, tmp_out_repo, tmp_repodata_path, handler, opts,
                   groupfile, todo, recs, renamed, sigint, fs0, clobbered>>

\* remove_dir(path): removes the directory at that path with all it holds.
RemoveDir(d) == NoDir

\* What SIGINT does to the directory at .repodata/: sigint_catcher removes
\* it when tmp_repodata_path is set; the default disposition (no handler
\* installed yet) leaves it.
AfterSigint(p) ==
    IF handler[p] /\ tmp_repodata_path[p] THEN RemoveDir(tmp_out_repo)
    ELSE tmp_out_repo

\* Lines 79-88: SIGINT arrives while the process runs. With the handler
\* installed the process exits 1; before that the signal kills it.
Interrupt(p) ==
    /\ pc[p] # "off"
    /\ exit_status[p] = "none"
    /\ sigint' = [sigint EXCEPT ![p] = TRUE]
    /\ tmp_out_repo' = AfterSigint(p)
    /\ clobbered' = IF tmp_out_repo' # tmp_out_repo THEN Touches(p) ELSE clobbered
    /\ Exit(p, IF handler[p] THEN "1" ELSE "SIGINT")
    /\ UNCHANGED <<poolvars, scanvars, pyvars>>
    /\ UNCHANGED <<out_repo, tmp_repodata_path, handler, opts, groupfile,
                   todo, recs, renamed, fs0>>

Step(p) ==
    \/ Mkdir(p) \/ SetPath(p) \/ Sigaction(p) \/ CopyGroupfile(p)
    \/ OpenSinks(p) \/ RunPool(p) \/ RemoveOld(p) \/ OpenDir(p)
    \/ MoveFile(p) \/ Rmdir(p)
    \/ Swap(p) \/ FillXml(p) \/ Groupfile(p) \/ Sqlite(p) \/ UniqueNames(p)
    \/ WriteRepomd(p) \/ Cleanup(p) \/ Return(p) \/ Interrupt(p)

NextRun == \E p \in Procs : Step(p)

(***************************************************************************)
(* Part II: walk, thread pool, sinks and cache, over two consecutive runs  *)
(* on the same input directory (the second one with --update).             *)
(***************************************************************************)
MaxTasks == 2       \* most package candidates in the tree
MaxWorkers == 2     \* most worker threads (--workers)
MaxChanges == 1     \* most modifications of the tree between the runs

LOCK_PRI == 0
LOCK_FIL == 1
LOCK_OTH == 2
Sinks == {LOCK_PRI, LOCK_FIL, LOCK_OTH}
Workers == 1..MaxWorkers

\* A candidate is its path below the input directory: directory and name.
\* "bad.rpm" is not a readable package; "gone.rpm" is a dangling symlink,
\* which readdir lists and stat fails on.
F(d, n) == [dir |-> d, name |-> n]
Files == {F("a", "x.rpm"), F("b", "x.rpm"), F("a", "y.rpm"),
          F("a", "bad.rpm"), F("a", "gone.rpm")}
NoTask == F("", "")
Kind(f) == IF f.name = "bad.rpm" THEN "corrupt"
           ELSE IF f.name = "gone.rpm" THEN "dangling" ELSE "package"
\* The two x.rpm have the same mtime and size and different contents.
Disk0 == [f \in Files |->
             [mtime |-> 1, size |-> IF f.name = "y.rpm" THEN 2 ELSE 1,
              content |-> IF f = F("a", "x.rpm") THEN 1
                          ELSE IF f = F("b", "x.rpm") THEN 2 ELSE 3]]
CkTypes == {"sha1", "sha256"}
FirstChecksum == "sha256"   \* --checksum of the first run
LocationBase == "http://base/"

\* struct stat of the file, or failure.
Stat(f) == [ok |-> Kind(f) # "dangling", st_mtime |-> disk[f].mtime,
            st_size |-> disk[f].size]

\* package_from_file(full_path, checksum_type, location_href, location_base,
\* changelog_limit): the Package read from the file's header, or NULL.
NoPkg == [pkgId |-> <<"", 0>>, checksum_type |-> "", time_file |-> 0,
          size_package |-> 0, location_href |-> NoTask, location_base |-> "",
          content |-> 0]
PackageFromFile(f, cktype, href, base) ==
    IF Kind(f) = "package"
    THEN [ok |-> TRUE,
          pkg |-> [pkgId |-> <<cktype, disk[f].content>>,
                   checksum_type |-> cktype,
                   time_file |-> disk[f].mtime,
                   size_package |-> disk[f].size,
                   location_href |-> href, location_base |-> base,
                   content |-> disk[f].content]]
    ELSE [ok |-> FALSE, pkg |-> NoPkg]

\* xml_dump(pkg): the three fragments, each carrying what it serializes.
XmlDump(pkg) ==
    [s \in Sinks |->
        IF s = LOCK_PRI
        THEN <<"package", pkg.pkgId, pkg.checksum_type, pkg.time_file,
               pkg.size_package, pkg.location_href, pkg.location_base>>
        ELSE IF s = LOCK_FIL THEN <<"package", pkg.pkgId, <<"file", pkg.content>>>>
        ELSE <<"package", pkg.pkgId, <<"changelog", pkg.content>>>>]
NoRes == [s \in Sinks |-> <<>>]

\* The chunks of a stream: the preamble with packages="N", the closing tag,
\* and per fragment the two parts the compressed writer appends.
Preamble(n) == <<<<"preamble", n>>, 0>>
ClosingTag == <<<<"close">>, 0>>
Chunk(frag, part) == <<frag, part>>
Fragments(st) == SelectSeq(st, LAMBDA c : c[2] = 1)
NoCache == [on |-> FALSE, tab |-> [k \in {} |-> 0]]

IdleWorker == [pc |-> "idle", sink |-> LOCK_PRI, task |-> NoTask, res |-> NoRes,
               held |-> {}]

InitPool ==
    /\ run = 1
    /\ mpc = "walk"
    /\ tree \in {T \in SUBSET Files : Cardinality(T) <= MaxTasks}
    /\ disk = Disk0
    /\ cfg \in [update : {FALSE}, skip_stat : {FALSE},
                checksum_type : {FirstChecksum}, no_database : BOOLEAN,
                workers : 1..MaxWorkers]
    /\ old_metadata = NoCache
    /\ unwalked = tree
    /\ queue = <<>>
    /\ package_count = 0
    /\ wk = [w \in Workers |-> IdleWorker]
    /\ lock = [s \in Sinks |-> FALSE]
    /\ stream = [s \in Sinks |-> <<>>]
    /\ db = [s \in Sinks |-> <<>>]
    /\ order = <<>>
    /\ prev = [s \in Sinks |-> <<>>]
    /\ changed = 0
    /\ statted = {} /\ parsed = {} /\ used_old = {}
    /\ taken = {} /\ finished = {} /\ freed = {}

\* Part I with the pool left out, and Part II with the output directory
\* left out.
PoolOff ==
    /\ run = 0 /\ mpc = "off" /\ tree = {} /\ disk = Disk0
    /\ cfg = [update |-> FALSE, skip_stat |-> FALSE,
              checksum_type |-> FirstChecksum, no_database |-> TRUE,
              workers |-> 1]
    /\ old_metadata = NoCache /\ unwalked = {} /\ queue = <<>>
    /\ package_count = 0
    /\ wk = [w \in Workers |-> IdleWorker]
    /\ lock = [s \in Sinks |-> FALSE]
    /\ stream = [s \in Sinks |-> <<>>]
    /\ db = [s \in Sinks |-> <<>>]
    /\ order = <<>>
    /\ prev = [s \in Sinks |-> <<>>]
    /\ changed = 0
    /\ statted = {} /\ parsed = {} /\ used_old = {}
    /\ taken = {} /\ finished = {} /\ freed = {}

(***************************************************************************)
(* Part II: the main thread                                                *)
(***************************************************************************)
\* Lines 539-609: the walk reaches one more candidate, in the order the
\* directory is read (any order in the first run, the same one in the
\* second: the tree has the same entries), and pushes its task; the pool
\* has no threads yet (g_thread_pool_new with max_threads 0, line 534).
WalkPush ==
    /\ mpc = "walk"
    /\ \E f \in unwalked :
        /\ run = 2 => f = order[package_count + 1]
        /\ order' = IF run = 1 THEN Append(order, f) ELSE order
        /\ unwalked' = unwalked \ {f}
        /\ queue' = Append(queue, f)
        /\ package_count' = package_count + 1
    /\ UNCHANGED <<runvars, scanvars, pyvars>>
    /\ UNCHANGED <<freed, run, mpc, tree, disk, cfg, old_metadata, wk, lock, stream, db,
                   prev, changed, statted, parsed, used_old, taken, finished>>

\* Lines 655-668: the walk is over; write the three preambles with
\* packages="package_count".
WriteHeader ==
    /\ mpc = "walk"
    /\ unwalked = {}
    /\ stream' = [s \in Sinks |-> Append(stream[s], Preamble(package_count))]
    /\ mpc' = "start"
    /\ UNCHANGED <<runvars, scanvars, pyvars>>
    /\ UNCHANGED <<freed, db, order, run, tree, disk, cfg, old_metadata, unwalked, queue,
                   package_count, wk, lock, prev, changed, statted, parsed,
                   used_old, taken, finished>>

\* Lines 671-675: g_thread_pool_set_max_threads(pool, workers).
StartPool ==
    /\ mpc = "start"
    /\ mpc' = "wait"
    /\ UNCHANGED <<runvars, scanvars, pyvars>>
    /\ UNCHANGED <<freed, order, run, tree, disk, cfg, old_metadata, unwalked, queue,
                   package_count, wk, lock, stream, db, prev, changed, statted,
                   parsed, used_old, taken, finished>>

\* A g_thread_pool_free(pool, TRUE, TRUE): the threads finish the task they
\* are at and the tasks still queued are dropped.
PoolFreedImmediately == \A w \in Workers : wk[w].pc = "idle"

\* Line 680: g_thread_pool_free(pool, FALSE, TRUE), immediate = FALSE and
\* wait = TRUE, returns when the queue is empty and every thread has
\* returned from dumper_thread.
PoolFreed == queue = <<>> /\ \A w \in Workers : wk[w].pc = "idle"

\* Lines 678-685: g_thread_pool_free(pool, FALSE, TRUE) returns once every
\* task has been processed; write the three closing tags.
WriteFooter ==
    /\ mpc = "wait"
    /\ PoolFreed
    /\ stream' = [s \in Sinks |-> Append(stream[s], ClosingTag)]
    /\ mpc' = "close"
    /\ UNCHANGED <<runvars, scanvars, pyvars>>
    /\ UNCHANGED <<freed, db, order, run, tree, disk, cfg, old_metadata, unwalked, queue,
                   package_count, wk, lock, prev, changed, statted, parsed,
                   used_old, taken, finished>>

\* Lines 687-700: cw_close the three files, close the databases.
CloseSinks ==
    /\ mpc = "close"
    /\ mpc' = "done"
    /\ UNCHANGED <<runvars, scanvars, pyvars>>
    /\ UNCHANGED <<freed, order, run, tree, disk, cfg, old_metadata, unwalked, queue,
                   package_count, wk, lock, stream, db, prev, changed, statted,
                   parsed, used_old, taken, finished>>

(***************************************************************************)
(* Part II: dumper_thread                                                  *)
(***************************************************************************)
\* Lines 225-229, task_cleanup: full_path, filename, path and the task are
\* released.
TaskCleanup(fr, t) == fr \cup {t}

\* A pool whose threads run from its creation on.
PoolRunningFromCreation == mpc \in {"walk", "start", "wait"}

\* Lines 534, 674, 680: the pool is created with max_threads 0, so that no
\* thread takes a task before g_thread_pool_set_max_threads, and
\* g_thread_pool_free returns after the last task.
PoolRunning == mpc = "wait"

\* Line 135: stat is called only with old metadata and without --skip-stat.
StatAlways(c, om) == om.on

NeedStat(c, om) == om.on /\ ~c.skip_stat

\* The comparison without the size.
CacheUsableNoSize(md, st, c) ==
    \/ c.skip_stat
    \/ /\ st.st_mtime = md.time_file
       /\ c.checksum_type = md.checksum_type

\* Lines 157-166: is the cached record md usable for the file.
CacheUsable(md, st, c) ==
    \/ c.skip_stat
    \/ /\ st.st_mtime = md.time_file
       /\ st.st_size = md.size_package
       /\ c.checksum_type = md.checksum_type

\* Lines 149-167: the lookup by filename and the decision old_used.
OldUsed(t) ==
    /\ old_metadata.on
    /\ t.name \in DOMAIN old_metadata.tab
    /\ CacheUsable(old_metadata.tab[t.name], Stat(t), cfg)

\* The stores with the task's filename in place of its href.
SetLocationsFilename(md, t) ==
    [md EXCEPT !.location_href = F("", t.name), !.location_base = LocationBase]

\* Lines 169-173: md->location_href and md->location_base are set to this
\* run's values.
SetLocations(md, t) ==
    [md EXCEPT !.location_href = t, !.location_base = LocationBase]

\* The check of the parser's result left out.
ParseFailureIgnored(r) == FALSE

\* Line 180: if (!pkg).
ParseFailed(r) == ~r.ok

\* A worker that goes from primary straight to other.
NextSinkSkips(s) == LOCK_OTH

\* Lines 198-199, 206-207: after the critical section of primary comes
\* that of filelists, then that of other.
NextSink(s) == s + 1

\* An unlock that is missing.
UnlockMissing(h, s) == h

\* G_UNLOCK(s) by a thread holding the locks h: the locks it holds afterwards.
Unlock(h, s) == h \ {s}

\* A lock that does not exclude.
LockNotChecked(s) == TRUE

\* G_LOCK(s) can be passed.
LockFree(s) == ~lock[s]

\* A pool that runs every thread it has, whatever --workers says.
NextIdleAnyThread(w) == /\ wk[w].pc = "idle"
                        /\ \A v \in Workers : v < w => wk[v].pc # "idle"

\* Threads are interchangeable: the idle thread with the least number takes
\* the next task.
NextIdle(w) == /\ w <= cfg.workers
               /\ wk[w].pc = "idle"
               /\ \A v \in Workers : v < w => wk[v].pc # "idle"

\* Lines 123-188: a thread takes the task at the head of the queue, and runs
\* up to its first access to data other threads write: stat, lookup, then
\* either the header parser and xml_dump, or the two stores into the cached
\* record.
Take(w) ==
    /\ PoolRunning
    /\ NextIdle(w)
    /\ queue # <<>>
    /\ LET t == Head(queue)
           need == NeedStat(cfg, old_metadata)
           r == PackageFromFile(t, cfg.checksum_type, t, LocationBase)
       IN /\ queue' = Tail(queue)
          /\ taken' = taken \cup {t}
          /\ statted' = IF need THEN statted \cup {t} ELSE statted
          /\ IF need /\ ~Stat(t).ok
             THEN \* line 138: return
                  /\ finished' = finished \cup {t}
                  /\ UNCHANGED <<order, wk, old_metadata, parsed, used_old, freed>>
             ELSE IF OldUsed(t)
             THEN \* lines 169-173
                  /\ old_metadata' = [old_metadata EXCEPT !.tab[t.name] =
                                                         SetLocations(@, t)]
                  /\ used_old' = used_old \cup {t}
                  /\ wk' = [wk EXCEPT ![w] = [pc |-> "dump", sink |-> LOCK_PRI,
                                              task |-> t, res |-> NoRes,
                                              held |-> {}]]
                  /\ UNCHANGED <<order, parsed, finished, freed>>
             ELSE \* lines 176-184
                  /\ parsed' = parsed \cup {t}
                  /\ IF ~ParseFailed(r)
                     THEN /\ wk' = [wk EXCEPT ![w] = [pc |-> "lock", sink |-> LOCK_PRI,
                                                      task |-> t, res |-> XmlDump(r.pkg),
                                                      held |-> {}]]
                          /\ UNCHANGED <<finished, freed>>
                     ELSE \* line 182: goto task_cleanup
                          /\ finished' = finished \cup {t}
                          /\ freed' = TaskCleanup(freed, t)
                          /\ UNCHANGED wk
                  /\ UNCHANGED <<order, old_metadata, used_old>>
    /\ UNCHANGED <<runvars, scanvars, pyvars>>
    /\ UNCHANGED <<order, run, mpc, tree, disk, cfg, unwalked, package_count, lock,
                   stream, db, prev, changed>>

\* Lines 185-187: xml_dump(md) reads the cached record as it is now.
Dump(w) ==
    /\ wk[w].pc = "dump"
    /\ wk' = [wk EXCEPT ![w].pc = "lock",
                        ![w].res = XmlDump(old_metadata.tab[wk[w].task.name])]
    /\ UNCHANGED <<runvars, scanvars, pyvars>>
    /\ UNCHANGED <<freed, order, run, mpc, tree, disk, cfg, old_metadata, unwalked, queue,
                   package_count, lock, stream, db, prev, changed, statted, parsed,
                   used_old, taken, finished>>

\* Lines 191-192, 199-200, 207-208: G_LOCK of the current sink, and the
\* compressed writer takes the first part of the fragment.
Begin(w) ==
    /\ wk[w].pc = "lock"
    /\ LockFree(wk[w].sink)
    /\ lock' = [lock EXCEPT ![wk[w].sink] = TRUE]
    /\ stream' = [stream EXCEPT ![wk[w].sink] = Append(@, Chunk(wk[w].res[wk[w].sink], 1))]
    /\ wk' = [wk EXCEPT ![w].pc = "put", ![w].held = @ \cup {wk[w].sink}]
    /\ UNCHANGED <<runvars, scanvars, pyvars>>
    /\ UNCHANGED <<freed, db, order, run, mpc, tree, disk, cfg, old_metadata, unwalked, queue,
                   package_count, prev, changed, statted, parsed, used_old,
                   taken, finished>>

\* Lines 192-196, 200-204, 208-212: the rest of the fragment, the database
\* row, G_UNLOCK; after the third sink lines 215-231 free record and task.
End(w) ==
    /\ wk[w].pc = "put"
    /\ stream' = [stream EXCEPT ![wk[w].sink] = Append(@, Chunk(wk[w].res[wk[w].sink], 2))]
    /\ db' = IF cfg.no_database THEN db
             ELSE [db EXCEPT ![wk[w].sink] = Append(@, wk[w].res[wk[w].sink][2])]
    /\ lock' = [lock EXCEPT ![wk[w].sink] = wk[w].sink \in Unlock(wk[w].held, wk[w].sink)]
    /\ IF wk[w].sink = LOCK_OTH
       THEN /\ wk' = [wk EXCEPT ![w] = [IdleWorker EXCEPT
                                           !.held = Unlock(wk[w].held, LOCK_OTH)]]
            /\ finished' = finished \cup {wk[w].task}
            /\ freed' = TaskCleanup(freed, wk[w].task)
       ELSE /\ wk' = [wk EXCEPT ![w].pc = "lock", ![w].sink = NextSink(@),
                               ![w].held = Unlock(@, wk[w].sink)]
            /\ UNCHANGED <<finished, freed>>
    /\ UNCHANGED <<runvars, scanvars, pyvars>>
    /\ UNCHANGED <<order, run, mpc, tree, disk, cfg, old_metadata, unwalked, queue,
                   package_count, prev, changed, statted, parsed, used_old, taken>>

(***************************************************************************)
(* Part II: between the two runs                                           *)
(***************************************************************************)
\* Somebody touches a package (new mtime) or rewrites it keeping its mtime
\* (new size and contents).
Modify ==
    /\ run = 1 /\ mpc = "done"
    /\ changed < MaxChanges
    /\ \E f \in {g \in tree : Kind(g) = "package"}, what \in {"touch", "rewrite"} :
        disk' = [disk EXCEPT ![f] =
                    IF what = "touch" THEN [@ EXCEPT !.mtime = @ + 1]
                    ELSE [@ EXCEPT !.size = @ + 2, !.content = @ + 3]]
    /\ changed' = changed + 1
    /\ UNCHANGED <<runvars, scanvars, pyvars>>
    /\ UNCHANGED <<freed, order, run, mpc, tree, cfg, old_metadata, unwalked, queue,
                   package_count, wk, lock, stream, db, prev, statted, parsed,
                   used_old, taken, finished>>

\* locate_and_load_xml_metadata(old_metadata, in_dir, HT_KEY_FILENAME): the
\* records read back from primary, filelists and other, keyed by the
\* basename of the location href; a later package replaces an earlier one
\* with the same key.
PkgOfFragment(p, st) ==
    LET fl == CHOOSE c \in {st[LOCK_FIL][i] : i \in 1..Len(st[LOCK_FIL])} :
                  c[2] = 1 /\ Len(c[1]) = 3 /\ c[1][2] = p[2]
    IN [pkgId |-> p[2], checksum_type |-> p[3], time_file |-> p[4],
        size_package |-> p[5], location_href |-> p[6], location_base |-> p[7],
        content |-> fl[1][3][2]]
LoadMetadata(st) ==
    LET pri == SelectSeq(st[LOCK_PRI], LAMBDA c : c[2] = 1 /\ Len(c[1]) = 7)
        keys == {pri[i][1][6].name : i \in 1..Len(pri)}
        last(k) == CHOOSE i \in 1..Len(pri) :
                      /\ pri[i][1][6].name = k
                      /\ \A j \in 1..Len(pri) : pri[j][1][6].name = k => j <= i
    IN [k \in keys |-> PkgOfFragment(pri[last(k)][1], st)]

\* The second run: createrepo_c --update [--skip-stat] [--checksum T] on the
\* same directory, up to the start of its walk (lines 371-414: the old
\* metadata of the input directory's repodata/ is loaded).
StartUpdate ==
    /\ run = 1 /\ mpc = "done"
    /\ \E skip \in BOOLEAN, ck \in CkTypes :
        cfg' = [cfg EXCEPT !.update = TRUE, !.skip_stat = skip, !.checksum_type = ck]
    /\ run' = 2
    /\ mpc' = "walk"
    /\ prev' = stream
    /\ old_metadata' = [on |-> TRUE, tab |-> LoadMetadata(stream)]
    /\ unwalked' = tree
    /\ queue' = <<>>
    /\ package_count' = 0
    /\ stream' = [s \in Sinks |-> <<>>]
    /\ db' = [s \in Sinks |-> <<>>]
    /\ statted' = {} /\ parsed' = {} /\ used_old' = {}
    /\ taken' = {} /\ finished' = {} /\ freed' = {}
    /\ UNCHANGED <<runvars, scanvars, pyvars>>
    /\ UNCHANGED <<order, tree, disk, wk, lock, changed>>

NextPool ==
    \/ WalkPush \/ WriteHeader \/ StartPool \/ WriteFooter \/ CloseSinks
    \/ \E w \in Workers : Take(w) \/ Dump(w) \/ Begin(w) \/ End(w)
    \/ Modify \/ StartUpdate

(***************************************************************************)
(* Part III: loading the old metadata (lines 371-414)                      *)
(***************************************************************************)
MaxMdPaths == 2     \* most --update-md-path options

\* Directories metadata can be loaded from: the input directory, an output
\* directory that is another one, and two auxiliary paths.
InDir == "in"
OtherDir == "out"
MdPaths == {"md1", "md2"}

\* The sequences over S up to length n.
RECURSIVE SeqsUpTo(_, _)
SeqsUpTo(S, n) ==
    IF n = 0 THEN {<<>>}
    ELSE LET shorter == SeqsUpTo(S, n - 1)
         IN shorter \cup {Append(q, x) : q \in shorter, x \in S}

\* --outputdir: not given, given as the input directory, or given as
\* another directory.
LoadOptions == [update : BOOLEAN, outputdir : {"", InDir, OtherDir},
                l_update_md_paths :
                    {q \in SeqsUpTo(MdPaths, MaxMdPaths) :
                        \A i, j \in 1..Len(q) : q[i] = q[j] => i = j}]

\* Lines 319-327: out_dir is the normalised --outputdir, or in_dir.
OutDir(o) == IF o.outputdir # "" THEN o.outputdir ELSE InDir

\* Line 381: if (cmd_options->outputdir).
OutputdirGiven(o) == o.outputdir # ""

InitLoad ==
    /\ lpc = "update"
    /\ lopts \in LoadOptions
    /\ md_i = 1
    /\ loaded = <<>>

LoadOff ==
    /\ lpc = "off"
    /\ lopts = [update |-> FALSE, outputdir |-> "", l_update_md_paths |-> <<>>]
    /\ md_i = 1
    /\ loaded = <<>>

\* ret = locate_and_load_xml_metadata(old_metadata, dir, HT_KEY_FILENAME):
\* the call is made, whatever it returns is logged.
Load(dir, ok) == loaded' = Append(loaded, <<dir, ok>>)

\* Lines 373-377: without --update nothing is loaded.
LoadStart ==
    /\ lpc = "update"
    /\ lpc' = IF lopts.update THEN "outdir" ELSE "done"
    /\ UNCHANGED <<runvars, poolvars, walkvars, pyvars>>
    /\ UNCHANGED <<lopts, md_i, loaded>>

\* Lines 379-388: the output directory's repodata.
LoadOutDir ==
    /\ lpc = "outdir"
    /\ IF OutputdirGiven(lopts)
       THEN \E ok \in BOOLEAN : Load(OutDir(lopts), ok)
       ELSE UNCHANGED loaded
    /\ lpc' = "indir"
    /\ UNCHANGED <<runvars, poolvars, walkvars, pyvars>>
    /\ UNCHANGED <<lopts, md_i>>

\* Lines 390-398: the input directory's repodata.
LoadInDir ==
    /\ lpc = "indir"
    /\ \E ok \in BOOLEAN : Load(InDir, ok)
    /\ lpc' = "mdpaths"
    /\ UNCHANGED <<runvars, poolvars, walkvars, pyvars>>
    /\ UNCHANGED <<lopts, md_i>>

\* Lines 400-411: one turn of the loop over --update-md-path.
LoadMdPath ==
    /\ lpc = "mdpaths"
    /\ md_i <= Len(lopts.l_update_md_paths)
    /\ \E ok \in BOOLEAN : Load(lopts.l_update_md_paths[md_i], ok)
    /\ md_i' = md_i + 1
    /\ UNCHANGED <<runvars, poolvars, walkvars, pyvars>>
    /\ UNCHANGED <<lpc, lopts>>

\* Lines 402, 413: the end of the list.
LoadEnd ==
    /\ lpc = "mdpaths"
    /\ md_i > Len(lopts.l_update_md_paths)
    /\ lpc' = "done"
    /\ UNCHANGED <<runvars, poolvars, walkvars, pyvars>>
    /\ UNCHANGED <<lopts, md_i, loaded>>

NextLoad == LoadStart \/ LoadOutDir \/ LoadInDir \/ LoadMdPath \/ LoadEnd

(***************************************************************************)
(* Part III: the walk (lines 539-653)                                      *)
(***************************************************************************)
MaxPkglist == 2     \* most entries of --pkglist

\* A file name is <<stem, suffix>>; a path below the input directory is the
\* sequence of its names, the input directory itself the empty one.
RpmSuffix == ".rpm"
Nm(stem, suffix) == <<stem, suffix>>
InputDir == <<>>

\* The input directory: two directories a/ and b/ with a directory a/c/
\* below, a directory named d.rpm/, packages, a symbolic link to a package
\* and a text file.
FsTree ==
    <<Nm("a", "")>> :> "dir" @@
    <<Nm("a", ""), Nm("x", RpmSuffix)>> :> "file" @@
    <<Nm("a", ""), Nm("c", "")>> :> "dir" @@
    <<Nm("a", ""), Nm("c", ""), Nm("z", RpmSuffix)>> :> "file" @@
    <<Nm("b", "")>> :> "dir" @@
    <<Nm("b", ""), Nm("l", RpmSuffix)>> :> "symlink" @@
    <<Nm("d", RpmSuffix)>> :> "dir" @@
    <<Nm("d", RpmSuffix), Nm("w", RpmSuffix)>> :> "file" @@
    <<Nm("n", ".txt")>> :> "file"

Entries == DOMAIN FsTree
Front(q) == SubSeq(q, 1, Len(q) - 1)
Last(q) == q[Len(q)]
Children(d) == {e \in Entries : Front(e) = d}

\* g_file_test follows symbolic links for IS_REGULAR and IS_DIR, and does
\* not for IS_SYMLINK; the link here points to a package.
IsRegular(e) == e \in Entries /\ FsTree[e] \in {"file", "symlink"}
IsDir(e) == e \in Entries /\ FsTree[e] = "dir"
IsSymlink(e) == e \in Entries /\ FsTree[e] = "symlink"

\* g_str_has_suffix(filename, ".rpm").
HasSuffix(filename, suffix) == filename[2] = suffix

\* A path as the string the glob patterns are matched against: the pieces
\* of its names with "/" between the names.
NameStr(n) == IF n[2] = "" THEN <<n[1]>> ELSE <<n[1], n[2]>>
RECURSIVE Str(_)
Str(path) ==
    IF path = <<>> THEN <<>>
    ELSE IF Len(path) = 1 THEN NameStr(path[1])
    ELSE NameStr(path[1]) \o <<"/">> \o Str(Tail(path))

\* g_pattern_match: "*" stands for any string, "/" included.
RECURSIVE PatternMatch(_, _)
PatternMatch(pattern, str) ==
    IF pattern = <<>> THEN str = <<>>
    ELSE IF Head(pattern) = "*"
    THEN \/ PatternMatch(Tail(pattern), str)
         \/ str # <<>> /\ PatternMatch(pattern, Tail(str))
    ELSE /\ str # <<>> /\ Head(str) = Head(pattern)
         /\ PatternMatch(Tail(pattern), Tail(str))

\* The --excludes patterns a run may be given: a/* and x*.
Masks == {<<"a", "/", "*">>, <<"x", "*">>}

\* Lines 92-110, allowed_file(filename, options): no exclude mask matches
\* the string it is given.
AllowedFile(str, o) == \A m \in o.exclude_masks : ~PatternMatch(m, str)

\* --pkglist: relative paths below the input directory; include_pkgs is a
\* GSList, NULL when it has no element.
NoPkglist == <<>>
Listed == {<<Nm("a", ""), Nm("x", RpmSuffix)>>, <<Nm("b", ""), Nm("l", RpmSuffix)>>}
WalkOptions == [skip_symlinks : BOOLEAN, exclude_masks : SUBSET Masks,
                include_pkgs : SeqsUpTo(Listed, MaxPkglist)]

\* struct PoolTask: full_path (here without the input directory), filename
\* and path.
PoolTask(full_path, filename, path) ==
    [full_path |-> full_path, filename |-> filename, path |-> path]

InitWalk ==
    /\ wpc = "start"
    /\ wopts \in WalkOptions
    /\ sub_dirs = <<>>
    /\ dirname = InputDir
    /\ unread = {}
    /\ scanned = <<>>
    /\ element = 1
    /\ pushed = <<>>

WalkOff ==
    /\ wpc = "off"
    /\ wopts = [skip_symlinks |-> FALSE, exclude_masks |-> {},
                include_pkgs |-> NoPkglist]
    /\ sub_dirs = <<>>
    /\ dirname = InputDir
    /\ unread = {}
    /\ scanned = <<>>
    /\ element = 1
    /\ pushed = <<>>

ScanOff == LoadOff /\ WalkOff

\* g_queue_push_head(sub_dirs, d); the loop takes with g_queue_pop_head.
PushHead(q, d) == <<d>> \o q

\* Lines 543-553: without --pkglist the walk starts at the input directory.
WalkStart ==
    /\ wpc = "start"
    /\ IF wopts.include_pkgs = NoPkglist
       THEN /\ sub_dirs' = PushHead(sub_dirs, InputDir)
            /\ wpc' = "pop"
       ELSE /\ wpc' = "list"
            /\ UNCHANGED sub_dirs
    /\ UNCHANGED <<runvars, poolvars, loadvars, pyvars>>
    /\ UNCHANGED <<wopts, dirname, unread, scanned, element, pushed>>

\* Lines 555-562: take the directory at the head of the queue and open it
\* (a directory of the tree can be opened).
PopDir ==
    /\ wpc = "pop"
    /\ sub_dirs # <<>>
    /\ dirname' = Head(sub_dirs)
    /\ sub_dirs' = Tail(sub_dirs)
    /\ unread' = Children(Head(sub_dirs))
    /\ scanned' = Append(scanned, Head(sub_dirs))
    /\ wpc' = "read"
    /\ UNCHANGED <<runvars, poolvars, loadvars, pyvars>>
    /\ UNCHANGED <<wopts, element, pushed>>

\* Lines 564-606: g_dir_read_name returns one more entry, in whatever order
\* the directory lists them. An entry without the suffix is queued when it
\* is a directory and skipped otherwise; an entry with the suffix is skipped
\* when it is a symbolic link and --skip-symlinks is given, and becomes a
\* task when allowed_file accepts its path relative to the input directory.
ReadName ==
    /\ wpc = "read"
    /\ \E full_path \in unread :
        LET filename == Last(full_path)
            repo_relative_path == Str(full_path)
        IN /\ unread' = unread \ {full_path}
           /\ IF ~HasSuffix(filename, RpmSuffix)
              THEN /\ sub_dirs' = IF ~IsRegular(full_path) /\ IsDir(full_path)
                                  THEN PushHead(sub_dirs, full_path)
                                  ELSE sub_dirs
                   /\ UNCHANGED pushed
              ELSE /\ pushed' =
                        IF wopts.skip_symlinks /\ IsSymlink(full_path)
                        THEN pushed
                        ELSE IF AllowedFile(repo_relative_path, wopts)
                        THEN Append(pushed, PoolTask(full_path, filename, dirname))
                        ELSE pushed
                   /\ UNCHANGED sub_dirs
    /\ UNCHANGED <<runvars, poolvars, loadvars, pyvars>>
    /\ UNCHANGED <<wpc, wopts, dirname, scanned, element>>

\* Lines 565, 608-609: no entry is left; g_dir_close.
CloseDir ==
    /\ wpc = "read"
    /\ unread = {}
    /\ wpc' = "pop"
    /\ UNCHANGED <<runvars, poolvars, loadvars, pyvars>>
    /\ UNCHANGED <<wopts, sub_dirs, dirname, unread, scanned, element, pushed>>

\* Lines 555, 611-612: the queue is empty, the walk is over.
WalkEnd ==
    /\ wpc = "pop"
    /\ sub_dirs = <<>>
    /\ wpc' = "done"
    /\ UNCHANGED <<runvars, poolvars, loadvars, pyvars>>
    /\ UNCHANGED <<wopts, sub_dirs, dirname, unread, scanned, element, pushed>>

\* Lines 618-650: one entry of --pkglist. filename is what follows the last
\* "/" of the relative path, path what precedes it; the task is pushed when
\* allowed_file accepts filename.
ListNext ==
    /\ wpc = "list"
    /\ element <= Len(wopts.include_pkgs)
    /\ LET relative_path == wopts.include_pkgs[element]
           filename == Last(relative_path)
       IN pushed' = IF AllowedFile(Str(<<filename>>), wopts)
                    THEN Append(pushed, PoolTask(relative_path, filename,
                                                 Front(relative_path)))
                    ELSE pushed
    /\ element' = element + 1
    /\ UNCHANGED <<runvars, poolvars, loadvars, pyvars>>
    /\ UNCHANGED <<wpc, wopts, sub_dirs, dirname, unread, scanned>>

\* Lines 618, 652: the end of the list.
ListEnd ==
    /\ wpc = "list"
    /\ element > Len(wopts.include_pkgs)
    /\ wpc' = "done"
    /\ UNCHANGED <<runvars, poolvars, loadvars, pyvars>>
    /\ UNCHANGED <<wopts, sub_dirs, dirname, unread, scanned, element, pushed>>

NextWalk ==
    \/ WalkStart \/ PopDir \/ ReadName \/ CloseDir \/ WalkEnd
    \/ ListNext \/ ListEnd

(***************************************************************************)
(* Part IV: the Python binding of the XML parsers (python/xml_parser-py.c) *)
(***************************************************************************)
MaxCallbacks == 4   \* most callbacks the parser makes in one call
MaxObjects == 2     \* package objects a newpkgcb can return

\* The Python objects a caller may give as a callback: a callable, None,
\* or something else.
Py_None == "None"
PyKinds == {"callable", Py_None, "int"}
PyCallable_Check(o) == o = "callable"
Callbacks == {"newpkgcb", "pkgcb", "warningcb"}
Functions == {"py_xml_parse_primary", "py_xml_parse_filelists",
              "py_xml_parse_other"}

\* Package objects: those a newpkgcb returns, and the one Object_FromPackage
\* makes for a package the parser allocated itself. NULL is no object.
NULL == 0
Wrapper == MaxObjects + 1
Packages == 1..MaxObjects
PyObjects == Packages \cup {Wrapper}

\* A check that lets every object pass.
AcceptableAnything(o) == TRUE

\* Lines 156, 161, 166 (235, 240, 245; 313, 318, 323): the test an argument
\* passes is PyCallable_Check(o) || o == Py_None.
Acceptable(o) == PyCallable_Check(o) \/ o = Py_None

InitPy ==
    /\ ypc = "args"
    /\ fn \in Functions
    /\ pyargs \in [Callbacks -> PyKinds]
    /\ cb_held = {}
    /\ installed = {}
    /\ parsing = FALSE
    /\ raised = "none"
    /\ tmp_err = FALSE
    /\ py_pkg = NULL
    /\ got = [o \in PyObjects |-> 0]
    /\ rel = [o \in PyObjects |-> 0]
    /\ passed = <<NULL, NULL>>
    /\ ncalls = 0
    /\ last_ret = <<"none", "none">>

PyOff ==
    /\ ypc = "off"
    /\ fn = "py_xml_parse_primary"
    /\ pyargs = [c \in Callbacks |-> Py_None]
    /\ cb_held = {}
    /\ installed = {}
    /\ parsing = FALSE
    /\ raised = "none"
    /\ tmp_err = FALSE
    /\ py_pkg = NULL
    /\ got = [o \in PyObjects |-> 0]
    /\ rel = [o \in PyObjects |-> 0]
    /\ passed = <<NULL, NULL>>
    /\ ncalls = 0
    /\ last_ret = <<"none", "none">>

\* A return with an exception set, before anything else was done.
Raise(exc) ==
    /\ raised' = exc
    /\ ypc' = "returned"
    /\ UNCHANGED <<cb_held, installed, parsing, py_pkg>>

\* Lines 147-204 (226-282, 304-360), the same in the three functions: the
\* three type checks in the order of the arguments, the check that not both
\* package callbacks are None, Py_XINCREF of the three arguments, a C
\* callback for each argument that is not None, cbdata.py_pkg = NULL, and
\* the call of cr_xml_parse_*.
ParseArgs ==
    /\ ypc = "args"
    /\ IF ~Acceptable(pyargs["newpkgcb"]) THEN Raise("TypeError")
       ELSE IF ~Acceptable(pyargs["pkgcb"]) THEN Raise("TypeError")
       ELSE IF ~Acceptable(pyargs["warningcb"]) THEN Raise("TypeError")
       ELSE IF pyargs["newpkgcb"] = Py_None /\ pyargs["pkgcb"] = Py_None
       THEN Raise("ValueError")
       ELSE /\ cb_held' = Callbacks
            /\ installed' = {c \in Callbacks : pyargs[c] # Py_None}
            /\ py_pkg' = NULL
            /\ parsing' = TRUE
            /\ ypc' = "parse"
            /\ UNCHANGED raised
    /\ UNCHANGED <<runvars, poolvars, scanvars>>
    /\ UNCHANGED <<fn, pyargs, tmp_err, got, rel, passed, ncalls, last_ret>>

\* A reference that is never given back.
ReleaseNever(r, o) == r

\* Py_DECREF(o) of lines 53 and 102, Py_XDECREF(o) of line 209: one
\* reference on o is given back, when o is an object.
Release(r, o) == IF o = NULL THEN r ELSE [r EXCEPT ![o] = @ + 1]

\* Lines 105-112, 128-135: a callback whose Python function raised returns
\* CR_CB_RET_ERR, any other CR_CB_RET_OK.
CbRet(result) == IF result = "raise" THEN "CR_CB_RET_ERR" ELSE "CR_CB_RET_OK"

\* What a Python newpkgcb can do: raise, or return a package object, None or
\* an object of another type.
NewPkgResults ==
    {<<k, NULL>> : k \in {"raise", Py_None, "int"}}
        \cup {<<"Package", o>> : o \in Packages}

\* Lines 40-84, c_newpkgcb, called by the parser at the start of a package:
\* the reference on the previous package is given back, the Python callback
\* is called; an exception or a result of a wrong type is an error, None
\* leaves no current package, a package object becomes the current one with
\* the reference the call returned. The parser is given no rule on the order
\* of its callbacks: every sequence of the installed ones is allowed.
C_newpkgcb ==
    /\ ypc = "parse"
    /\ "newpkgcb" \in installed
    /\ ncalls < MaxCallbacks
    /\ \E result \in NewPkgResults :
        /\ rel' = Release(rel, py_pkg)
        /\ IF result[1] = "Package"
           THEN /\ got' = [got EXCEPT ![result[2]] = @ + 1]
                /\ py_pkg' = result[2]
                /\ last_ret' = <<"c_newpkgcb", "CR_CB_RET_OK">>
                /\ UNCHANGED tmp_err
           ELSE IF result[1] = Py_None
           THEN /\ py_pkg' = NULL
                /\ last_ret' = <<"c_newpkgcb", "CR_CB_RET_OK">>
                /\ UNCHANGED <<got, tmp_err>>
           ELSE /\ py_pkg' = NULL
                /\ tmp_err' = TRUE
                /\ last_ret' = <<"c_newpkgcb", "CR_CB_RET_ERR">>
                /\ UNCHANGED got
    /\ ncalls' = ncalls + 1
    /\ UNCHANGED <<runvars, poolvars, scanvars>>
    /\ UNCHANGED <<ypc, fn, pyargs, cb_held, installed, parsing, raised, passed>>

\* Lines 86-113, c_pkgcb, called by the parser at the end of a package: the
\* argument is the current package object or, without one, a new object
\* made for the parser's package; after the call its reference is given
\* back and there is no current package; an exception is an error.
C_pkgcb ==
    /\ ypc = "parse"
    /\ "pkgcb" \in installed
    /\ ncalls < MaxCallbacks
    /\ LET arg == IF py_pkg # NULL THEN py_pkg ELSE Wrapper
       IN /\ got' = IF py_pkg # NULL THEN got ELSE [got EXCEPT ![Wrapper] = @ + 1]
          /\ passed' = <<py_pkg, arg>>
          /\ rel' = Release(rel, arg)
          /\ py_pkg' = NULL
    /\ \E result \in {"raise", Py_None} :
        /\ tmp_err' = (tmp_err \/ result = "raise")
        /\ last_ret' = <<"c_pkgcb", CbRet(result)>>
    /\ ncalls' = ncalls + 1
    /\ UNCHANGED <<runvars, poolvars, scanvars>>
    /\ UNCHANGED <<ypc, fn, pyargs, cb_held, installed, parsing, raised>>

\* Lines 115-136, c_warningcb: the Python callback is called; an exception
\* is an error.
C_warningcb ==
    /\ ypc = "parse"
    /\ "warningcb" \in installed
    /\ ncalls < MaxCallbacks
    /\ \E result \in {"raise", Py_None} :
        /\ tmp_err' = (tmp_err \/ result = "raise")
        /\ last_ret' = <<"c_warningcb", CbRet(result)>>
    /\ ncalls' = ncalls + 1
    /\ UNCHANGED <<runvars, poolvars, scanvars>>
    /\ UNCHANGED <<ypc, fn, pyargs, cb_held, installed, parsing, raised,
                   py_pkg, got, rel, passed>>

\* Lines 196-204 (275-282, 353-360): cr_xml_parse_* returns, after any
\* number of callbacks, with the error of a callback or one of its own, or
\* without an error.
ParserReturns ==
    /\ ypc = "parse"
    /\ \E parse_ok \in BOOLEAN : tmp_err' = (tmp_err \/ ~parse_ok)
    /\ ypc' = "cleanup"
    /\ UNCHANGED <<runvars, poolvars, scanvars>>
    /\ UNCHANGED <<fn, pyargs, cb_held, installed, parsing, raised, py_pkg,
                   got, rel, passed, ncalls, last_ret>>

\* Lines 206-216 (284-294, 362-372): Py_XDECREF of the three arguments and
\* of cbdata.py_pkg; an exception when the GError is set, None otherwise.
\* cbdata ends with the call.
Finish ==
    /\ ypc = "cleanup"
    /\ cb_held' = {}
    /\ rel' = Release(rel, py_pkg)
    /\ py_pkg' = NULL
    /\ raised' = IF tmp_err THEN "CreaterepoCError" ELSE "none"
    /\ ypc' = "returned"
    /\ UNCHANGED <<runvars, poolvars, scanvars>>
    /\ UNCHANGED <<fn, pyargs, installed, parsing, tmp_err, got, passed, ncalls,
                   last_ret>>

NextPy ==
    \/ ParseArgs \/ C_newpkgcb \/ C_pkgcb \/ C_warningcb \/ ParserReturns
    \/ Finish

(***************************************************************************)
(* Specifications                                                          *)
(***************************************************************************)
RunOff ==
    /\ pc = [p \in Procs |-> "off"]
    /\ out_repo = NoDir /\ tmp_out_repo = NoDir
    /\ tmp_repodata_path = [p \in Procs |-> FALSE]
    /\ handler = [p \in Procs |-> FALSE]
    /\ exit_status = [p \in Procs |-> "none"]
    /\ opts = [p \in Procs |-> NoOptions]
    /\ groupfile = [p \in Procs |-> FALSE]
    /\ todo = [p \in Procs |-> {}]
    /\ recs = [p \in Procs |-> NoRecs]
    /\ renamed = [p \in Procs |-> FALSE]
    /\ sigint = [p \in Procs |-> FALSE]
    /\ fs0 = <<out_repo, tmp_out_repo>>
    /\ clobbered = {}

\* Two consecutive runs of the walk and the pool.
InitSpecPool == InitPool /\ RunOff /\ ScanOff /\ PyOff
SpecPool == InitSpecPool /\ [][NextPool]_vars

\* The same with threads that are scheduled: a thread that can go on
\* (xml_dump, a free lock, the rest of its critical section) does.
InitSpecPoolFair == InitPool /\ RunOff /\ ScanOff /\ PyOff
SpecPoolFair ==
    /\ InitSpecPoolFair /\ [][NextPool]_vars
    /\ \A w \in Workers :
           WF_vars(Dump(w)) /\ WF_vars(Begin(w)) /\ WF_vars(End(w))

\* The same, with a pool whose idle threads take the tasks that wait, and a
\* main thread that goes on when g_thread_pool_free returns.
InitSpecPoolDrain == InitPool /\ RunOff /\ ScanOff /\ PyOff
SpecPoolDrain ==
    /\ InitSpecPoolDrain /\ [][NextPool]_vars
    /\ \A w \in Workers :
           WF_vars(Dump(w)) /\ WF_vars(Begin(w)) /\ WF_vars(End(w))
    /\ WF_vars(\E w \in Workers : Take(w))
    /\ WF_vars(WriteFooter)

\* The loading of the old metadata, for every choice of the options.
InitSpecLoad == InitLoad /\ WalkOff /\ RunOff /\ PoolOff /\ PyOff
SpecLoad == InitSpecLoad /\ [][NextLoad]_vars

\* The walk, for every choice of the options.
InitSpecWalk == InitWalk /\ LoadOff /\ RunOff /\ PoolOff /\ PyOff
SpecWalk == InitSpecWalk /\ [][NextWalk]_vars

\* One call of one of the three Python functions, for every choice of the
\* arguments and everything the callbacks and the parser can do.
InitSpecPy == InitPy /\ ScanOff /\ RunOff /\ PoolOff
SpecPy == InitSpecPy /\ [][NextPy]_vars

\* One run against an output directory nobody else touches.
InitSpecRun == InitRun({1}, ExtraNames) /\ PoolOff /\ ScanOff /\ PyOff
SpecRun == InitSpecRun /\ [][NextRun]_vars

\* Two runs against the same output directory, without a group file.
InitSpecTwo ==
    /\ InitRun({1, 2}, {}) /\ PoolOff /\ ScanOff /\ PyOff
    /\ \A p \in Procs : ~opts[p].groupfile
SpecTwo == InitSpecTwo /\ [][NextRun]_vars


(***************************************************************************)
(* Claims                                                                  *)
(***************************************************************************)
BeforeFinalize == {"mkdir", "setpath", "sigaction", "copygroup", "open",
                   "pool", "movestart"}
BeforeSwap == BeforeFinalize \cup {"opendir", "move", "swap"}

\* d holds nothing but files of the previous set, each as it was.
PrevOnly(d) ==
    d.exists => \A n \in Names(d) :
                   n \in Names(fs0[1]) /\ d.files[n] = fs0[1].files[n]

\* d holds a complete XML document b written by run p.
HasXml(d, b, p) ==
    \E n \in Names(d) : n[2] = b /\ d.files[n].by = p /\ d.files[n].full

\* d is the complete new metadata set of run p, repomd.xml included.
CompleteNew(d, p) ==
    /\ d.exists /\ d.owner = p
    /\ RepomdName \in Names(d)
    /\ d.files[RepomdName].by = p
    /\ d.files[RepomdName].refs \subseteq Names(d)
    /\ \A b \in XmlBases : HasXml(d, b, p)

HasXmlOf(d, b, p) == \E n \in Names(d) : n[2] = b /\ d.files[n].by = p

C2_RepomdMatchesDirectory ==
    exit_status[1] = "0" =>
        /\ out_repo.exists
        /\ RepomdName \in Names(out_repo)
        /\ out_repo.files[RepomdName].refs = Names(out_repo) \ {RepomdName}

\* C4: of two runs on one output directory, neither ever deletes, writes
\* into or renames a .repodata/ that the other one created.
C4_StagingIsLock == clobbered = {}

\* C5: when .repodata/ exists as the run starts, the run does not get past
\* the mkdir, never exits 0, and repodata/ and .repodata/ stay as they were.
C5_StagingConflict ==
    fs0[2].exists =>
        /\ pc[1] = "mkdir"
        /\ exit_status[1] # "0"
        /\ out_repo = fs0[1]
        /\ tmp_out_repo = fs0[2]

\* The run found .repodata/ in place and has exited with status 1.
C5_Witness ==
    /\ fs0[2].exists /\ fs0[1].exists
    /\ exit_status[1] = "1" /\ ~sigint[1]

\* C6: after SIGINT was delivered to a run that had created its staging
\* directory, the process has terminated with a non-zero status and there
\* is no .repodata/.
C6_NoStagingAfterInterrupt ==
    (sigint[1] /\ pc[1] # "mkdir") =>
        /\ exit_status[1] \in {"1", "SIGINT"}
        /\ ~tmp_out_repo.exists

\* The N of packages="N" in the preamble of a closed document.
CountAttr(st) == st[1][1][2]

\* C3: once the documents are closed, the N of packages="N" in each of the
\* three equals the number of fragments written to it, also when tasks
\* failed in the worker.
C3_CountMatchesFragments ==
    mpc = "done" =>
        \A s \in Sinks : CountAttr(stream[s]) = Len(Fragments(stream[s]))

\* The cache has a record under the task's basename.
CacheHit(t) == old_metadata.on /\ t.name \in DOMAIN old_metadata.tab

\* The file's mtime and size and the requested checksum type are those of
\* the cached record.
AttrsMatch(t) ==
    LET md == old_metadata.tab[t.name]
    IN /\ disk[t].mtime = md.time_file
       /\ disk[t].size = md.size_package
       /\ cfg.checksum_type = md.checksum_type

Reusable(t) == CacheHit(t) /\ AttrsMatch(t)

\* Both parts of the fragment are in the stream of sink s.
Written(frag, s) ==
    \E i \in 1..(Len(stream[s]) - 1) :
        stream[s][i] = Chunk(frag, 1) /\ stream[s][i + 1] = Chunk(frag, 2)

\* What the header parser makes of the file in this run.
Fresh(t) == PackageFromFile(t, cfg.checksum_type, t, LocationBase)

\* The decision and its consequences for a task whose file is there.
DecidedByMatch(t) ==
    /\ t \in used_old <=> Reusable(t)
    /\ ~Reusable(t) => t \in parsed
    /\ (~Reusable(t) /\ Fresh(t).ok /\ t \in finished) =>
           \A s \in Sinks : Written(XmlDump(Fresh(t).pkg)[s], s)

\* C7 (as stated): with --update and without --skip-stat, every task a
\* worker has taken uses the cached record iff the basename is in the cache
\* and mtime, size and checksum type match; every other task has the header
\* parser invoked and the fresh record written.
C7_CacheIffMatch ==
    (old_metadata.on /\ ~cfg.skip_stat) =>
        \A t \in taken : DecidedByMatch(t)

\* C7 (amended): with --update and without --skip-stat the worker stats the
\* file first. A task whose stat fails is dropped: no cache record is used,
\* the header parser is not invoked, nothing is written for it. A task whose
\* stat succeeds uses the cached record iff the basename is in the cache and
\* mtime, size and checksum type match; otherwise the header parser is
\* invoked, and the record it returns is written.
C7_CacheIffMatchAfterStat ==
    (old_metadata.on /\ ~cfg.skip_stat) =>
        \A t \in taken :
            /\ t \in statted
            /\ IF Stat(t).ok
               THEN DecidedByMatch(t)
               ELSE /\ t \notin used_old /\ t \notin parsed /\ t \in finished
                    /\ \A s \in Sinks : \A i \in 1..Len(stream[s]) :
                           Len(stream[s][i][1]) = 7 => stream[s][i][1][6] # t

\* An --update run without --skip-stat finished one task from the cache and
\* parsed another one whose cached record no longer matched.
C7_Witness ==
    /\ old_metadata.on /\ ~cfg.skip_stat
    /\ \E t \in finished \cap used_old : Reusable(t)
    /\ \E u \in finished \cap parsed : CacheHit(u) /\ ~AttrsMatch(u)

\* C8: with --update --skip-stat no file is stat'ed, and every task whose
\* basename is in the cache reuses the cached record whatever mtime, size
\* and checksum type are: the header parser is not invoked for it, and what
\* is written for it is the cached record.
C8_SkipStatReuses ==
    (old_metadata.on /\ cfg.skip_stat) =>
        /\ statted = {}
        /\ \A t \in taken :
               CacheHit(t) =>
                   /\ t \in used_old
                   /\ t \notin parsed
                   /\ t \in finished =>
                          Written(XmlDump(old_metadata.tab[t.name])[LOCK_FIL],
                                  LOCK_FIL)

\* An --update --skip-stat run finished, from the cache, a task whose file
\* no longer matches the cached record.
C8_Witness ==
    /\ old_metadata.on /\ cfg.skip_stat
    /\ \E t \in finished \cap used_old : ~AttrsMatch(t)

\* The second run had the same options as the first and found the tree as
\* the first one left it.
SameRunAgain ==
    /\ run = 2 /\ mpc = "done"
    /\ changed = 0
    /\ cfg.checksum_type = FirstChecksum

\* C9 (as stated): a second run with --update, the same options and an
\* unchanged tree writes primary, filelists and other byte for byte as the
\* first run did, whatever the number of workers and their scheduling.
C9_UpdateIdempotent == SameRunAgain => stream = prev

\* How often each chunk occurs in a stream.
ChunkBag(st) ==
    [c \in {st[i] : i \in 1..Len(st)} |->
        Cardinality({i \in 1..Len(st) : st[i] = c})]

NoSharedBasename == \A f, g \in tree : f.name = g.name => f = g

\* C9 (amended): a second run with --update, the same options and an
\* unchanged tree writes to each of primary, filelists and other the
\* preamble of the first run and as many fragments as the first run did;
\* when no two packages of the tree share a basename, the fragments are
\* those of the first run, each as often, in the order of this run's
\* scheduling, which may differ from the first run's.
C9_UpdateSameFragments ==
    SameRunAgain =>
        \A s \in Sinks :
            /\ stream[s][1] = prev[s][1]
            /\ Len(stream[s]) = Len(prev[s])
            /\ NoSharedBasename => ChunkBag(stream[s]) = ChunkBag(prev[s])

\* The second run reused two cached records and wrote them in the other
\* order.
C9_Witness ==
    /\ SameRunAgain /\ NoSharedBasename
    /\ Cardinality(finished \cap used_old) >= 2
    /\ stream # prev

\* The workers inside the critical section of sink s.
Inside(s) == {w \in Workers : wk[w].pc = "put" /\ wk[w].sink = s}

\* Every first part of a fragment is followed by its second part.
Contiguous(st) ==
    \A i \in 1..Len(st) :
        /\ st[i][2] = 1 => i = Len(st) \/ st[i + 1] = Chunk(st[i][1], 2)
        /\ st[i][2] = 2 => i > 1 /\ st[i - 1] = Chunk(st[i][1], 1)

\* C10: at most one worker at a time is inside the critical section of a
\* sink, and the fragments in a stream are contiguous: no fragment has a
\* part of another one inside it.
C10_OneWriterPerSink ==
    \A s \in Sinks :
        /\ Cardinality(Inside(s)) <= 1
        /\ Contiguous(stream[s])
        /\ lock[s] <=> Inside(s) # {}

\* One worker is inside the critical section of a sink another worker is
\* waiting for, and a third fragment is already in that stream.
C10_Witness ==
    \E s \in Sinks : \E v, w \in Workers :
        /\ wk[v].pc = "put" /\ wk[v].sink = s
        /\ wk[w].pc = "lock" /\ wk[w].sink = s
        /\ Len(stream[s]) >= 2

\* C11: a worker holds at most one sink lock, the one of the sink it is
\* writing (sinks are taken in the order primary, filelists, other, each
\* released before the next is taken), and under fair scheduling every
\* worker that has a record to write gets through its three writes.
C11_LocksInOrderNoDeadlock ==
    /\ [](\A w \in Workers :
            /\ Cardinality(wk[w].held) <= 1
            /\ wk[w].held = IF wk[w].pc = "put" THEN {wk[w].sink} ELSE {}
            /\ \A v \in Workers \ {w} : wk[v].held \cap wk[w].held = {})
    /\ \A w \in Workers : (wk[w].pc \in {"dump", "lock", "put"}) ~> (wk[w].pc = "idle")

\* One worker holds the lock of filelists, having released primary, while
\* another one holds primary.
C11_Witness ==
    \E v, w \in Workers :
        /\ wk[v].held = {LOCK_FIL}
        /\ wk[w].held = {LOCK_PRI}

\* The tasks of this run that got a record: from the cache or from the
\* header parser.
WithRecord == {t \in taken : t \in used_old \/ (t \in parsed /\ Fresh(t).ok)}

\* C12: a task the header parser fails on is dropped at once and writes to
\* no sink, and the others are not affected: once the sinks are closed each
\* document holds one fragment per task that got a record, no more, and the
\* fragments of every other parsed task are in all three (the files being
\* what they were during the run).
C12_ParseFailureDropsOnlyThatTask ==
    /\ \A t \in parsed :
           ~Fresh(t).ok =>
               /\ t \in finished
               /\ \A w \in Workers : wk[w].task # t
               /\ \A i \in 1..Len(stream[LOCK_PRI]) :
                      Len(stream[LOCK_PRI][i][1]) = 7 =>
                          stream[LOCK_PRI][i][1][6] # t
    /\ (mpc = "done" /\ (run = 2 \/ changed = 0)) =>
           /\ taken = tree
           /\ \A s \in Sinks :
                  /\ Len(Fragments(stream[s])) = Cardinality(WithRecord)
                  /\ \A t \in parsed :
                         Fresh(t).ok => Written(XmlDump(Fresh(t).pkg)[s], s)

\* A run is over in which the parser failed on one file and another file
\* was parsed and written.
C12_Witness ==
    /\ mpc = "done"
    /\ \E t \in parsed : ~Fresh(t).ok
    /\ \E u \in parsed : Fresh(u).ok /\ u \in finished

\* The pool phase of run 1 is over and one of the XML streams it wrote is
\* not complete: a write to it failed.
WriteFailed ==
    /\ pc[1] \notin {"mkdir", "setpath", "sigaction", "copygroup", "open", "pool"}
    /\ \E d \in {out_repo, tmp_out_repo} :
           /\ d.exists
           /\ \E n \in Names(d) :
                  n[2] \in XmlBases /\ d.files[n].by = 1 /\ ~d.files[n].full

\* C13: when a write to a compressed stream failed, the staging directory
\* is not renamed to repodata/ and the run does not exit 0.
C13_WriteFailureSuppressesPublication ==
    WriteFailed => ~renamed[1] /\ exit_status[1] # "0"

AfterSwap == {"fillxml", "group", "sqlite", "unique", "repomd", "cleanup",
              "return"}

\* C14: a finalize step that fails ends the run with status 1 at that step:
\* the run gets past the swap only when the rename succeeded, and it exits
\* 0 only with repodata/ renamed into place, the old files moved out of it
\* and repomd.xml written.
C14_FinalizeFailureIsFatal ==
    /\ pc[1] \in AfterSwap => renamed[1]
    /\ exit_status[1] = "0" =>
           /\ renamed[1]
           /\ RepomdName \in Names(out_repo)
           /\ out_repo.files[RepomdName].by = 1

\* C15: the fragments a worker is about to write, or is writing, for its
\* task carry that task's own location_href and the run's location_base,
\* also when the record comes from the cache.
C15_OwnLocation ==
    \A w \in Workers :
        wk[w].pc \in {"lock", "put"} =>
            /\ wk[w].res[LOCK_PRI][6] = wk[w].task
            /\ wk[w].res[LOCK_PRI][7] = LocationBase

\* C16: while the pool runs, no step changes the cache: neither its keys
\* nor a field of a cached record.
C16_CacheReadOnly == [][mpc = "wait" => old_metadata' = old_metadata]_vars

\* How often each package id occurs among the fragments of a stream.
PkgBag(st) ==
    LET fr == Fragments(st)
    IN [k \in {fr[i][1][2] : i \in 1..Len(fr)} |->
           Cardinality({i \in 1..Len(fr) : fr[i][1][2] = k})]

\* The workers whose fragment for sink s is in the stream, or begun.
PastSink(s) ==
    {w \in Workers : /\ wk[w].pc \in {"lock", "put"}
                     /\ wk[w].sink > s \/ (wk[w].sink = s /\ wk[w].pc = "put")}

\* C17: each task writes one fragment to each document or none to any: at
\* every moment a document holds one fragment per finished task that got a
\* record and one per worker that has reached that sink with its task; so
\* when the pool has completed the three documents hold the same packages,
\* each as often.
C17_SamePackagesInAllDocuments ==
    /\ \A s \in Sinks :
           Len(Fragments(stream[s])) =
               Cardinality(finished \cap WithRecord) + Cardinality(PastSink(s))
    /\ mpc \in {"close", "done"} =>
           \A s \in Sinks : PkgBag(stream[s]) = PkgBag(stream[LOCK_PRI])

\* The pool has completed; two packages are in the three documents, in
\* primary in another order than in other.
C17_Witness ==
    /\ mpc = "done"
    /\ Len(Fragments(stream[LOCK_PRI])) = 2
    /\ Fragments(stream[LOCK_PRI])[1][1][2] # Fragments(stream[LOCK_PRI])[2][1][2]
    /\ Fragments(stream[LOCK_PRI])[1][1][2] = Fragments(stream[LOCK_OTH])[2][1][2]

\* C18: the cell read by sigint_catcher is null until the staging directory
\* has been made, holds the staging path from line 345 until the swap, and is
\* null in every state after the swap rename has succeeded.
C18_CellClearedAtSwap ==
    /\ pc[1] = "mkdir" => ~tmp_repodata_path[1]
    /\ pc[1] \in BeforeSwap \ {"mkdir", "setpath"} => tmp_repodata_path[1]
    /\ renamed[1] => ~tmp_repodata_path[1]

\* The chunks of st from the i-th on are halves of package fragments.
FragmentsFrom(st, i, j) == \A k \in i..j : st[k][1][1] = "package" /\ st[k][2] \in {1, 2}

\* What has been written to stream s is a prefix of: the preamble with the
\* number of tasks the walk has pushed, fragments, the closing tag; the
\* closing tag is there from line 683 on.
StreamShape(s) ==
    LET st == stream[s]
        n == Len(st)
    IN /\ mpc = "walk" => st = <<>>
       /\ mpc # "walk" =>
            /\ unwalked = {} /\ package_count = Cardinality(tree)
            /\ n >= 1 /\ st[1] = Preamble(package_count)
            /\ IF mpc \in {"close", "done"}
               THEN n >= 2 /\ st[n] = ClosingTag /\ FragmentsFrom(st, 2, n - 1)
               ELSE FragmentsFrom(st, 2, n)

\* C19: each stream gets one preamble with the final count, then fragments,
\* then one closing tag and the close, after which nothing is written; the
\* workers write only between the preamble and the closing tag, although
\* the tasks were pushed during the walk.
C19_PreambleFragmentsClosingTag ==
    /\ [](/\ \A s \in Sinks : StreamShape(s)
          /\ mpc # "wait" => \A w \in Workers : wk[w].pc = "idle")
    /\ [][mpc = "done" /\ mpc' = "done" => stream' = stream]_vars

\* Both tasks were pushed during the walk; the preamble says 2, a worker is
\* in the middle of the first fragment and the other task waits.
C19_Witness ==
    /\ mpc = "wait" /\ Len(queue) = 1
    /\ stream[LOCK_PRI][1] = Preamble(2) /\ Len(stream[LOCK_PRI]) = 2
    /\ \E w \in Workers : wk[w].pc = "put" /\ wk[w].sink = LOCK_PRI

\* C20: every task the walk has pushed is taken once, and every task
\* dumper_thread has returned from has been released, whether it was
\* written, could not be parsed or could not be statted.
C20_EveryTaskDestroyed ==
    /\ \A t \in finished : t \in freed
    /\ mpc \in {"close", "done"} => taken = tree /\ finished = tree

\* No task waits, no thread is in dumper_thread, no sink lock is held.
Quiescent ==
    /\ queue = <<>>
    /\ \A w \in Workers : wk[w].pc = "idle" /\ wk[w].held = {}
    /\ \A s \in Sinks : ~lock[s]

\* C21: once the pool has been started it becomes quiescent and main writes
\* the closing tags; the closing tags and the steps after them find the
\* pool quiescent, with every task of the walk processed.
C21_PoolQuiescesBeforeFinalize ==
    /\ [](mpc \in {"close", "done"} => Quiescent /\ finished = tree)
    /\ (mpc = "wait") ~> (mpc = "close" /\ Quiescent)

\* The closing tags have just been written after two threads worked through
\* two tasks.
C21_Witness ==
    /\ mpc = "close" /\ Quiescent
    /\ cfg.workers = 2 /\ Cardinality(finished) = 2
    /\ \A s \in Sinks : stream[s][Len(stream[s])] = ClosingTag

\* The package ids of a document, in the order of its fragments.
PkgOrder(st) == [i \in 1..Len(Fragments(st)) |-> Fragments(st)[i][1][2]]

\* The complete documents do not list their packages in the same order.
OrderDiffers ==
    /\ mpc \in {"close", "done"}
    /\ \E s \in Sinks : PkgOrder(stream[s]) # PkgOrder(stream[LOCK_PRI])

\* C22: the order of the packages is not the same in the three documents in
\* every execution: C22_Witness is an execution with two workers and two
\* tasks where it differs. It differs only with at least two workers and at
\* least two packages written.
C22_OrderDiffersOnlyWithTwoWorkers ==
    OrderDiffers => cfg.workers >= 2 /\ Len(PkgOrder(stream[LOCK_PRI])) >= 2

\* Two workers, two tasks: filelists lists the packages in another order
\* than primary.
C22_Witness ==
    /\ OrderDiffers
    /\ cfg.workers = 2 /\ Cardinality(tree) = 2
    /\ PkgOrder(stream[LOCK_FIL]) # PkgOrder(stream[LOCK_PRI])

\* A capacity that does not grow with the number of packages: here, one
\* less than the largest number of packages a walk finds.
QueueCapacity == MaxTasks - 1

\* C23: the number of tasks that wait in the queue never exceeds the
\* capacity.
C23_QueueBounded == Len(queue) <= QueueCapacity

\* A task was pushed for the path e.
Emitted(e) == \E i \in 1..Len(pushed) : pushed[i].full_path = e

\* The directory d was opened and read.
Scanned(d) == \E i \in 1..Len(scanned) : scanned[i] = d

\* The rule for an entry that is not a directory: the suffix, the symbolic
\* link policy, the exclude patterns on the path relative to the input
\* directory.
IsCandidate(e) ==
    /\ HasSuffix(Last(e), RpmSuffix)
    /\ ~(wopts.skip_symlinks /\ IsSymlink(e))
    /\ AllowedFile(Str(e), wopts)

\* C24: after a recursive walk every directory below the input directory
\* has been scanned and none is a task, and an entry that is not a
\* directory is a task exactly when the rule makes it a candidate.
C24_WalkerClassifies ==
    wpc = "done" /\ wopts.include_pkgs = NoPkglist =>
        /\ \A e \in Entries : IsDir(e) => Scanned(e) /\ ~Emitted(e)
        /\ \A e \in Entries : ~IsDir(e) => (Emitted(e) <=> IsCandidate(e))

\* C25: in both modes a task is pushed only for a path, relative to the
\* input directory, that no exclude pattern matches, and a listed path that
\* no pattern matches is pushed as it would be by the walk.
C25_ExcludeOnRelativePath ==
    wpc = "done" =>
        /\ \A i \in 1..Len(pushed) : AllowedFile(Str(pushed[i].full_path), wopts)
        /\ \A i \in 1..Len(wopts.include_pkgs) :
               AllowedFile(Str(wopts.include_pkgs[i]), wopts)
                   => Emitted(wopts.include_pkgs[i])

\* C26: with --skip-symlinks no task is pushed for a symbolic link, in
\* either mode.
C26_NoTaskForSymlink ==
    wopts.skip_symlinks => \A i \in 1..Len(pushed) : ~IsSymlink(pushed[i].full_path)

\* C27: the directories are scanned in breadth-first order: a directory is
\* never scanned after a deeper one.
C27_BreadthFirst ==
    \A i, j \in 1..Len(scanned) : i < j => Len(scanned[i]) <= Len(scanned[j])

\* The directories loaded, in the order of the calls.
LoadedDirs == [i \in 1..Len(loaded) |-> loaded[i][1]]

\* The output directory when it is another one than the input directory,
\* then the input directory, then the --update-md-path directories.
SourcesInOrder(o) ==
    (IF OutDir(o) # InDir THEN <<OutDir(o)>> ELSE <<>>)
        \o <<InDir>> \o o.l_update_md_paths

\* C28: with --update, whatever the loads return, the sources loaded are
\* the output directory if it is distinct from the input directory, the
\* input directory and the auxiliary paths, in this order and each once;
\* without --update nothing is loaded.
C28_LoadOrder ==
    lpc = "done" =>
        LoadedDirs = IF lopts.update THEN SourcesInOrder(lopts) ELSE <<>>

\* The record r was filled, and the file it names is in repodata/ with the
\* bytes the checksum was computed from.
PublishedBytes(r) ==
    r.ok => /\ out_repo.exists /\ r.href \in Names(out_repo)
            /\ out_repo.files[r.href].by + 1 = r.ck

\* C29: every filled record holds the checksum of the bytes repodata/ holds
\* under the record's name, from the moment it is filled to the end of the
\* run; after a successful swap the records of the XML files are filled
\* from the files the run wrote; and a database record names the
\* compressed database, which carries the checksum of its XML file.
C29_ChecksumsOfPublishedBytes ==
    /\ \A t \in DOMAIN recs[1] : PublishedBytes(recs[1][t])
    /\ renamed[1] /\ pc[1] \in AfterSwap \ {"fillxml"} =>
           \A t \in {"primary", "filelists", "other"} :
               recs[1][t].ok /\ recs[1][t].ck = 1 + 1
    /\ \A b \in DbBases :
           DbRecType(b) \in DOMAIN recs[1] /\ recs[1][DbRecType(b)].ok =>
               /\ recs[1][DbRecType(b)].href[2] = CompressedDb(b)
               /\ out_repo.files[recs[1][DbRecType(b)].href].refs =
                      DbInfo(recs[1][XmlRecType(b)].ck)

\* A run with databases and --unique-md-filenames has returned 0 after a
\* successful swap: repomd.xml lists the renamed files.
C29_Witness ==
    /\ exit_status[1] = "0" /\ renamed[1]
    /\ ~opts[1].no_database /\ opts[1].unique_md_filenames
    /\ recs[1]["primary_db"].ok /\ recs[1]["primary_db"].href[1] = 1 + 1
    /\ RepomdName \in Names(out_repo)

\* C30: a turn of the move loop leaves every file the run wrote into the
\* staging directory there, with the bytes the run wrote.
C30_MoveKeepsArtifacts ==
    [][pc[1] = "move" /\ todo'[1] # todo[1] =>
          \A n \in Names(tmp_out_repo) :
              tmp_out_repo.files[n].by = 1 =>
                  /\ n \in Names(tmp_out_repo')
                  /\ tmp_out_repo'.files[n] = tmp_out_repo.files[n]]_vars

(***************************************************************************)
(* The Python binding of the XML parsers                                   *)
(***************************************************************************)
\* An argument that is neither callable nor None.
BadCallback(c) == ~PyCallable_Check(pyargs[c]) /\ pyargs[c] # Py_None
NothingDone == ~parsing /\ installed = {} /\ ncalls = 0 /\ cb_held = {}

\* C31: py_xml_parse_primary, py_xml_parse_filelists and py_xml_parse_other
\* reject their arguments before the parser is started and before a callback
\* is invoked. The type checks come first: when newpkgcb, pkgcb or warningcb
\* is neither callable nor None the call raises TypeError; when the three
\* have an accepted type and newpkgcb and pkgcb are both None it raises
\* ValueError; in every other case the parser is started with exactly the
\* callbacks that are not None installed.
C31_ArgumentsCheckedBeforeParsing ==
    /\ ypc = "args" => NothingDone
    /\ ypc \notin {"off", "args"} =>
        IF \E c \in Callbacks : BadCallback(c)
        THEN raised = "TypeError" /\ ypc = "returned" /\ NothingDone
        ELSE IF pyargs["newpkgcb"] = Py_None /\ pyargs["pkgcb"] = Py_None
        THEN raised = "ValueError" /\ ypc = "returned" /\ NothingDone
        ELSE /\ parsing
             /\ installed = {c \in Callbacks : pyargs[c] # Py_None}
             /\ raised \notin {"TypeError", "ValueError"}

\* py_xml_parse_other given a callable warningcb and None for both package
\* callbacks: ValueError, and the warning callback was never called.
C31_Witness ==
    /\ fn = "py_xml_parse_other" /\ ypc = "returned"
    /\ pyargs["newpkgcb"] = Py_None /\ pyargs["pkgcb"] = Py_None
    /\ pyargs["warningcb"] = "callable"
    /\ raised = "ValueError" /\ NothingDone

\* The references on o that the call holds: received and not given back.
Owned(o) == got[o] - rel[o]

\* C32: for every sequence of newpkgcb, pkgcb and warningcb callbacks in one
\* call, the reference on the current package object is balanced: the call
\* holds one reference on the object stored in cbdata.py_pkg and none on any
\* other object, no reference is given back that was not received, pkgcb is
\* called with the stored object when there is one, and when the call has
\* returned every reference received has been given back.
C32_PackageReferenceBalanced ==
    /\ \A o \in PyObjects :
        /\ rel[o] <= got[o]
        /\ Owned(o) = IF py_pkg = o THEN 1 ELSE 0
    /\ passed[1] # NULL => passed[2] = passed[1]
    /\ ypc = "returned" => \A o \in PyObjects : Owned(o) = 0

\* pkgcb is None. newpkgcb returned two package objects, the second replaced
\* the first, then warningcb raised: the call has returned and both
\* references were given back, the second at the end of the call.
C32_Witness ==
    /\ ypc = "returned" /\ raised = "CreaterepoCError"
    /\ pyargs["pkgcb"] = Py_None
    /\ ncalls = 3 /\ last_ret = <<"c_warningcb", "CR_CB_RET_ERR">>
    /\ \A o \in Packages : got[o] = 1 /\ rel[o] = 1
====
